---- MODULE Spec2Model ----
(***************************************************************************)
(* FocusGate service worker (src/unnamed/part_000): the reconciliation of  *)
(* the blocklist, the snooze windows and the granted host permissions into *)
(* the installed redirect rules.                                           *)
(*                                                                         *)
(* The worker is single-threaded and event-driven.  Every `await` on a     *)
(* chrome.* call is a suspension point; the code between two suspension    *)
(* points runs atomically.  One action of this module is one such segment: *)
(* the awaited call takes effect and the code that follows it runs up to   *)
(* the next awaited call.  A handler that is suspended is a record in      *)
(* `tasks`; its local variables are fields of the record.                  *)
(***************************************************************************)
EXTENDS Integers, Sequences, FiniteSets, TLC

\* ---------------------------------------------------------------- bounds
MaxTasks == 2          \* handlers suspended at the same time
MaxTicks == 2          \* clock advances the model takes
MaxMinutes == 1        \* largest `minutes` argument of a pause command
MaxCoalesced == 2      \* cap of the counter of requests coalesced in a pass
MaxEvents == 2         \* external events (commands, permission changes, UI
                       \* writes, clock advances, restarts) in one behaviour
MaxList == 3           \* longest list of domains handed to the popup's setBlocked
MaxWindows == 2        \* debounce windows the clock of the debouncer runs for

\* ------------------------------------------------------ program constants
RULE_BASE == 100000
RULE_SPAN == 90000
PENDING_MS == 15000
MINUTE_MS == 60000
\* the delay of scheduleSync                                (part_000:399)
DEBOUNCE_MS == 120

\* The domains of the model, in the order Array.prototype.sort gives them.
DomainOrder == <<"a.com", "b.com">>
Domains == {DomainOrder[i] : i \in 1..Len(DomainOrder)}
\* Domain strings as a user may type them, in the order of the default sort()
\* (UTF-16 code units: upper case before lower case).
SortOrder == <<"B.com", "a.com", "b.com">>
RawDomains == {SortOrder[i] : i \in 1..Len(SortOrder)}
Rank(d) == CHOOSE i \in 1..Len(SortOrder) : SortOrder[i] = d

\* ------------------------------------------------------------- variables
VARIABLES
    blockedDomains,   \* chrome.storage.sync  "blockedDomains": sequence of domains
    pausedUntilTs,    \* chrome.storage.local "pausedUntilTs"
    pausedDomains,    \* chrome.storage.local "pausedDomains": domain -> expiry
    pendingGrants,    \* chrome.storage.local "pendingGrants": domain -> expiry
    perms,            \* origin patterns the extension holds (chrome.permissions)
    rules,            \* installed dynamic rules (chrome.declarativeNetRequest)
    alarms,           \* armed alarms (chrome.alarms): name -> when
    now,              \* Date.now()
    syncing,          \* _syncing
    needsResync,      \* _needsResync
    debounceTimer,    \* _debounceTimer # null
    changes,          \* storage.onChanged events not yet delivered
    tasks,            \* suspended handlers
    ev,               \* the last observable event (history)
    hist,             \* history of the passes (see the claims)
    quota             \* external events the behaviour may still take

vars == <<blockedDomains, pausedUntilTs, pausedDomains, pendingGrants, perms,
          rules, alarms, now, syncing, needsResync, debounceTimer, changes,
          tasks, ev, quota>>

\* ------------------------------------------------------------------ maps
EmptyMap == [x \in {} |-> 0]
Put(m, k, v) == [x \in (DOMAIN m) \cup {k} |-> IF x = k THEN v ELSE m[x]]
Del(m, k) == [x \in (DOMAIN m) \ {k} |-> m[x]]
\* JS `m[k] && ...`: an absent key is undefined, a stored 0 is falsy.
Truthy(m, k) == k \in DOMAIN m /\ m[k] # 0

\* ------------------------------------------------------------ sequences
RECURSIVE SeqToSet(_)
SeqToSet(s) == IF s = <<>> THEN {} ELSE {Head(s)} \cup SeqToSet(Tail(s))

RECURSIVE SortedSeq(_)
\* the members of a set of domains in sort() order
SortedSeq(S) ==
    IF S = {} THEN <<>>
    ELSE LET m == CHOOSE x \in S : \A y \in S : Rank(x) <= Rank(y)
         IN <<m>> \o SortedSeq(S \ {m})

\* Array.from(new Set(a)).sort()                    (part_000:151)
UniqSorted(a) == SortedSeq(SeqToSet(a))

\* String.prototype.toLowerCase on the strings of the model
Lower(d) == IF d = "B.com" THEN "b.com" ELSE d

\* a normalisation that keeps the case
normalizeDomainKeepsCase(text) == text

\* normalizeDomain(text) of a bare host name: the host in lower case
\*                                                      (popup.js:169-201)
normalizeDomain(text) == Lower(text)

\* [...new Set(domains.map(normalizeDomain).filter(Boolean))].sort()
\*                                                          (popup.js:220)
NormalList(list) ==
    SortedSeq({normalizeDomain(list[i]) : i \in 1..Len(list)} \ {""})

\* ------------------------------------------------------ permission oracle
AllSites == [scheme |-> "*", sub |-> FALSE, host |-> "*"]
Origin(scheme, sub, d) == [scheme |-> scheme, sub |-> sub, host |-> d]

\* the four origins the popup requests for a domain     (popup.js:237-252)
OriginsOf(d) == {Origin("https", FALSE, d), Origin("http", FALSE, d),
                 Origin("https", TRUE, d), Origin("http", TRUE, d)}

\* the patterns hasHostAccess queries, in its order
Checks(d) == <<AllSites, Origin("https", TRUE, d), Origin("http", TRUE, d),
               Origin("https", FALSE, d), Origin("http", FALSE, d)>>

\* chrome.permissions.contains(q)
Contains(held, q) == q \in held

\* hasHostAccess(domain): malformed domains are denied without a query; the
\* first pattern held grants access.
hasHostAccess(held, d) ==
    /\ d # ""
    /\ \E i \in 1..Len(Checks(d)) : Contains(held, Checks(d)[i])

\* ------------------------------------------------------------------ rules
\* domainRule(id, domain): the rule's identifier and the domain of its
\* urlFilter ||domain^ (the redirect target is a function of the domain).
domainRule(id, d) == [id |-> id, domain |-> d]

InRange(id) == id >= RULE_BASE /\ id < RULE_BASE + RULE_SPAN

\* ----------------------------------------------------------------- alarms
GlobalAlarm == [name |-> "fg:resumeAll", d |-> ""]
DomainAlarm(d) == [name |-> "fg:resume:", d |-> d]

\* ------------------------------------------------------------------ tasks
Blank == [kind |-> "", pc |-> "", d |-> "", until |-> 0, m |-> EmptyMap,
          sBlocked |-> <<>>, sPausedUntil |-> 0, sPausedDomains |-> EmptyMap,
          rnow |-> 0, pending |-> EmptyMap, i |-> 0, allowed |-> <<>>,
          denied |-> <<>>, changed |-> FALSE, desired |-> <<>>, ourIds |-> {},
          added |-> <<>>, j |-> 0, err |-> FALSE]

\* the handler's own fields, with the locals of syncRules dropped
Caller(t) == [Blank EXCEPT !.kind = t.kind, !.d = t.d, !.until = t.until,
                           !.err = t.err]

PassPcs == {"getState", "getPending", "oracle", "setPending", "setBlocked",
            "getRules", "updateRules"}
InFlight == {t \in tasks : t.pc \in PassPcs}

\* history: what a pass has seen since it started
NoHist == [coalesced |-> 0,   \* reconcile requests that found the pass in flight
           unauth |-> {},     \* domains with neither access nor a live pending grant, all along
           uiAdded |-> {},    \* domains a UI write added to the blocklist meanwhile
           removed |-> {},    \* domains the reconciler removed and no UI write added back
           prev |-> {},       \* the rules installed when the pass started
           calm |-> 0,        \* passes started since the last change from outside (up to 2)
           wrote |-> FALSE,   \* the pass wrote blockedDomains or pendingGrants
           graceUntil |-> EmptyMap,  \* domain -> end of the window markPending opened
           graced |-> {},     \* blocklisted domains inside that window, all along
           ended |-> {},      \* domains whose window markGranted has ended
           endedIn |-> {},    \* ... that had no host access, all along
           boot |-> {},       \* pauses persisted at the restart and not written since
           bootLost |-> FALSE,  \* the restart dropped the armed alarms
           owed |-> "none",   \* the latest reconcile request: asked, reading (a pass
                              \* has read the state after it), none (that pass ended)
           late |-> FALSE,    \* that request found a pass in flight
           wake |-> [d \in Domains |-> "idle"],  \* per-domain resume timer: fired,
                              \* cleared (its handler removed the pause entry), idle
           wakeBusy |-> FALSE,  \* a pass was in flight when the timer last fired
           raw |-> <<>>,      \* the blocklist as last declared (before any normalisation)
           by |-> "",         \* ... by the popup's setBlocked, or found in storage
           fresh |-> FALSE,   \* a pass has started since
           tainted |-> FALSE, \* the handler of a malformed message wrote persisted
                              \* state, changed an alarm or asked for a pass
           before |-> [cmd |-> "", d |-> "", state |-> <<>>],
                              \* the last command taken up by an idle worker, and
                              \* the pauses, pending grants and alarms it found
           was |-> {},        \* the rules installed before the last step
           pend |-> EmptyMap, \* the pending grants the pass in flight has read
           asked |-> {},      \* <<domain, answer>> of the permission queries of the pass in flight
           probe |-> [d |-> "", queried |-> <<>>, answer |-> ""],
                              \* the hasHostAccess call in progress or just ended
           need |-> FALSE,    \* a resync was requested before the last step
           busy |-> FALSE,    \* a pass was in flight before the last step
           req |-> FALSE,     \* the last step was a reconcile request
           failedOnce |-> FALSE,  \* a pass has failed
           trailed |-> FALSE, \* a failed pass was followed by its trailing pass
           dropped |-> {},    \* domains the last step's rewrite took out of the blocklist
           expect |-> EmptyMap,  \* pausedDomains with every command's edit applied to its own entry
           on |-> {},         \* domains a pauseDomain or resumeDomain command has named
           newly |-> {},      \* domains a UI write added and none has removed since
           outlive |-> EmptyMap, \* per-domain pauses running when the global alarm fired
           chain |-> 0,       \* 1: a pass has written storage; 2: the debounce timer fired after that
           swapped |-> FALSE, \* the last step was an update of the rules that was applied
           flow |-> [pc |-> "idle", original |-> <<>>],
                              \* the popup's add-domain handler: where it stands
                              \* and the blocklist it read
           lastCmd |-> "",    \* the pause or resumeNow command that arrived last
           resumed |-> FALSE, \* ... a resumeNow, and it has been answered {ok: true}
           deb |-> [timers |-> {}, \* deadlines of the timeouts the platform holds
                    due |-> -1,    \* deadline of the timeout _debounceTimer names
                    first |-> -1,  \* when the listener took the first and the last
                    last |-> -1,   \* notification since the debouncer was last at rest
                    fires |-> 0,   \* debounced requests since then
                    at |-> -1,     \* ... the time of the last
                    calls |-> 0,   \* scheduleSync calls since the last debounced request
                    since |-> -1,  \* ... as the last debounced request found them
                    wait |-> -1]]  \* ... and the time since the last of them

\* the event of the last step
NoEv == [passStart |-> FALSE,   \* a pass started
         passEnd |-> FALSE,     \* a pass ended (its finally block ran)
         failed |-> FALSE,      \* ... with its updateDynamicRules rejected
         sawPause |-> FALSE,    \* ... having read a global pause still in the future
         h |-> NoHist,          \* ... and this history
         restart |-> FALSE,     \* the browser restarted
         done |-> "",           \* the handler that returned, if any
         resp |-> "",           \* the command answered, if any
         ok |-> TRUE,           \* ... with {ok: true}
         d |-> "",              \* ... its domain
         early |-> FALSE,       \* syncRules returned at once: a pass was in flight
         wrote |-> "",          \* the storage key a pass wrote
         declared |-> FALSE,    \* the popup called setBlocked
         arg |-> <<>>,          \* ... with this list
         invalid |-> FALSE,     \* the message answered at once was unknown or malformed
         desired |-> <<>>,      \* the rules the pass that ended had compiled
         at |-> 0]              \* the time (`now`) of the pass that ended

CommandKinds == {"syncRules", "pauseForMinutes", "resumeNow", "pauseDomain",
                 "resumeDomain", "markPending", "markGranted"}

\* ------------------------------------------------- storage.onChanged events
LocalChange == [area |-> "local", added |-> <<>>]
\* newArr.filter(d => !oldArr.includes(d))               (part_000:412-414)
Added(old, new) == SelectSeq(new, LAMBDA d : d \notin SeqToSet(old))
SyncChange(old, new) == [area |-> "sync", added |-> Added(old, new)]
\* chrome.storage raises onChanged for a key only when its value changed
Notify(old, new, c) == IF old = new THEN changes ELSE changes \cup {c}

\* ------------------------------------------------------------- scheduleSync
\* scheduleSync(): clearTimeout, then arm the one debounce timer
scheduleSync == debounceTimer' = TRUE

\* ------------------------------------------------------- after syncRules
\* What a handler does once its `await syncRules()` has returned.
ContAlarms(t, al) ==
    CASE t.kind = "pauseForMinutes" -> Put(al, GlobalAlarm, t.until)
      [] t.kind = "pauseDomain" -> Put(al, DomainAlarm(t.d), t.until)
      [] t.kind \in {"resumeDomain", "alarmDomain"} -> Del(al, DomainAlarm(t.d))
      [] t.kind \in {"resumeNow", "alarmAll"} -> Del(al, GlobalAlarm)
      [] OTHER -> al

ContPc(t) == IF t.kind \in {"resumeNow", "alarmAll"} THEN "getAllAlarms" ELSE "done"

\* The handler `t` resumes after syncRules; `rest` are the other tasks, `e` the
\* event record so far and `al` the alarms as the handler has left them.  A rejected syncRules skips the rest of the handler;
\* the message handler's catch answers {ok: false}.
Return(t, rest, e, al) ==
    /\ alarms' = IF t.err THEN al ELSE ContAlarms(t, al)
    /\ tasks' = IF t.err \/ ContPc(t) = "done" THEN rest
                ELSE rest \cup {[Caller(t) EXCEPT !.pc = ContPc(t)]}
    /\ ev' = IF t.err \/ ContPc(t) = "done"
             THEN [e EXCEPT !.done = t.kind, !.ok = ~t.err, !.d = t.d,
                            !.resp = IF t.kind \in CommandKinds THEN t.kind ELSE ""]
             ELSE e

\* ------------------------------------------------------------- syncRules
\* a guard that lets every call through
SyncGuardOff == FALSE

\* `if (_syncing)`                                          (part_000:195)
SyncGuard == syncing

Bump(n) == IF n < MaxCoalesced THEN n + 1 ELSE n

\* a guard that returns without recording the request
CallSyncDrops(t, rest, al) ==
    IF SyncGuard
    THEN /\ needsResync' = needsResync
         /\ syncing' = syncing
         /\ Return(t, rest, [NoEv EXCEPT !.early = TRUE], al)
    ELSE /\ syncing' = TRUE
         /\ needsResync' = needsResync
         /\ tasks' = rest \cup {[t EXCEPT !.pc = "getState"]}
         /\ alarms' = al
         /\ ev' = [NoEv EXCEPT !.passStart = TRUE]

\* The handler `t` calls syncRules().  With a pass in flight the call only
\* sets _needsResync and returns; otherwise `t` becomes the runner of a pass.
CallSync(t, rest, al) ==
    IF SyncGuard
    THEN /\ needsResync' = TRUE
         /\ syncing' = syncing
         /\ Return(t, rest, [NoEv EXCEPT !.early = TRUE], al)
    ELSE /\ syncing' = TRUE
         /\ needsResync' = needsResync
         /\ tasks' = rest \cup {[t EXCEPT !.pc = "getState"]}
         /\ alarms' = al
         /\ ev' = [NoEv EXCEPT !.passStart = TRUE]

\* a finally block that forgets the requested resync
ResyncNever == FALSE

\* `if (_needsResync)` of the finally block                  (part_000:232)
ResyncWanted == needsResync

\* a cleanup that is skipped when the pass threw
FinallySkipped(t, rest) ==
    LET e == [NoEv EXCEPT !.passEnd = TRUE, !.failed = t.err, !.h = hist,
                          !.desired = t.desired, !.at = t.rnow,
                          !.sawPause = t.sPausedUntil # 0 /\ t.rnow < t.sPausedUntil] IN
    IF ResyncWanted /\ ~t.err
    THEN /\ syncing' = TRUE
         /\ needsResync' = FALSE
         /\ tasks' = rest \cup {[Caller(t) EXCEPT !.pc = "getState"]}
         /\ alarms' = alarms
         /\ ev' = [e EXCEPT !.passStart = TRUE]
    ELSE /\ syncing' = t.err
         /\ needsResync' = needsResync
         /\ Return(t, rest, e, alarms)

\* The finally block of syncRules, run by the runner `t`.
Finally(t, rest) ==
    LET e == [NoEv EXCEPT !.passEnd = TRUE, !.failed = t.err, !.h = hist,
                          !.desired = t.desired, !.at = t.rnow,
                          !.sawPause = t.sPausedUntil # 0 /\ t.rnow < t.sPausedUntil] IN
    IF ResyncWanted
    THEN /\ syncing' = TRUE
         /\ needsResync' = FALSE
         /\ tasks' = rest \cup {[Caller(t) EXCEPT !.pc = "getState"]}
         /\ alarms' = alarms
         /\ ev' = [e EXCEPT !.passStart = TRUE]
    ELSE /\ syncing' = FALSE
         /\ needsResync' = needsResync
         /\ Return(t, rest, e, alarms)

\* getState() has returned; reconcileDomains starts.       (part_000:203-207)
GetState(t) ==
    /\ t.pc = "getState"
    /\ tasks' = (tasks \ {t}) \cup
           {[t EXCEPT !.pc = "getPending", !.sBlocked = blockedDomains,
                      !.sPausedUntil = pausedUntilTs,
                      !.sPausedDomains = pausedDomains, !.rnow = now, !.i = 1]}
    /\ ev' = NoEv
    /\ UNCHANGED <<blockedDomains, pausedUntilTs, pausedDomains, pendingGrants,
                   perms, rules, alarms, now, syncing, needsResync,
                   debounceTimer, changes>>

\* `pending[d] && pending[d] > now`                          (part_000:131)
InPending(pending, d, at) == Truthy(pending, d) /\ pending[d] > at

RECURSIVE Scan(_)
\* The loop of reconcileDomains up to its next hasHostAccess query: a domain
\* with a live pending grant is allowed without a query.
Scan(t) ==
    IF t.i > Len(t.sBlocked) THEN t
    ELSE LET d == t.sBlocked[t.i] IN
         IF InPending(t.pending, d, t.rnow)
         THEN Scan([t EXCEPT !.allowed = Append(@, d), !.i = @ + 1])
         ELSE t

\* a filter that looks at the per-domain pauses only
ActiveDomainsPerDomain(t) ==
    SelectSeq(t.allowed,
        LAMBDA d : ~(Truthy(t.sPausedDomains, d) /\ t.rnow < t.sPausedDomains[d]))

\* activeDomains                                           (part_000:210-212)
ActiveDomains(t) ==
    IF t.sPausedUntil # 0 /\ t.rnow < t.sPausedUntil THEN <<>>
    ELSE SelectSeq(t.allowed,
            LAMBDA d : ~(Truthy(t.sPausedDomains, d) /\ t.rnow < t.sPausedDomains[d]))

\* a compiler that numbers the rules from 0
DesiredRulesUnbased(active) ==
    [k \in 1..Len(active) |-> domainRule(k - 1, active[k])]

\* desiredRules                                              (part_000:215)
DesiredRules(active) ==
    [k \in 1..Len(active) |-> domainRule(RULE_BASE + (k - 1), active[k])]

\* reconcileDomains has returned to syncRules
Compile(t) == [t EXCEPT !.pc = "getRules", !.desired = DesiredRules(ActiveDomains(t))]

\* a reconciler that never rewrites the blocklist
AfterSweepSkips(t) == Compile(t)

\* `if (denied.length)`                                       (part_000:150)
AfterSweep(t) == IF t.denied # <<>> THEN [t EXCEPT !.pc = "setBlocked"] ELSE Compile(t)

\* a reconciler that saves the pending grants on every pass
AfterScanSaves(t) ==
    IF t.i <= Len(t.sBlocked) THEN [t EXCEPT !.pc = "oracle"]
    ELSE [t EXCEPT !.pc = "setPending"]

\* where the runner suspends next, once the loop has gone as far as it can
AfterScan(t) ==
    IF t.i <= Len(t.sBlocked) THEN [t EXCEPT !.pc = "oracle"]
    ELSE IF t.changed THEN [t EXCEPT !.pc = "setPending"]
    ELSE AfterSweep(t)

\* getPendingGrants() has returned                            (part_000:123)
GetPending(t) ==
    /\ t.pc = "getPending"
    /\ tasks' = (tasks \ {t}) \cup {AfterScan(Scan([t EXCEPT !.pending = pendingGrants]))}
    /\ ev' = NoEv
    /\ UNCHANGED <<blockedDomains, pausedUntilTs, pausedDomains, pendingGrants,
                   perms, rules, alarms, now, syncing, needsResync,
                   debounceTimer, changes>>

\* an iteration in which a pending grant that has expired denies the domain
CheckedExpiredDenies(t, access) ==
    LET d == t.sBlocked[t.i]
        expired == Truthy(t.pending, d) /\ t.pending[d] <= t.rnow
        ok == access /\ ~expired
    IN [t EXCEPT !.allowed = IF ok THEN Append(@, d) ELSE @,
                 !.denied = IF ok THEN @ ELSE Append(@, d),
                 !.pending = IF expired THEN Del(@, d) ELSE @,
                 !.changed = @ \/ expired,
                 !.i = @ + 1]

\* one iteration of the loop after its hasHostAccess query  (part_000:132-142)
Checked(t, access) ==
    LET d == t.sBlocked[t.i]
        expired == Truthy(t.pending, d) /\ t.pending[d] <= t.rnow
    IN [t EXCEPT !.allowed = IF access THEN Append(@, d) ELSE @,
                 !.denied = IF access THEN @ ELSE Append(@, d),
                 !.pending = IF expired THEN Del(@, d) ELSE @,
                 !.changed = @ \/ expired,
                 !.i = @ + 1]

\* hasHostAccess(d) has returned
Oracle(t) ==
    /\ t.pc = "oracle"
    /\ tasks' = (tasks \ {t}) \cup
           {AfterScan(Scan(Checked(t, hasHostAccess(perms, t.sBlocked[t.i]))))}
    /\ ev' = NoEv
    /\ UNCHANGED <<blockedDomains, pausedUntilTs, pausedDomains, pendingGrants,
                   perms, rules, alarms, now, syncing, needsResync,
                   debounceTimer, changes>>

\* a query that throws ends hasHostAccess with false
QueryThrows(t, throws) ==
    /\ t.pc = "oracle"
    /\ LET d == t.sBlocked[t.i]
           held == d # "" /\ ~throws /\ Contains(perms, Checks(d)[t.j + 1])
           last == d = "" \/ throws \/ t.j + 1 = Len(Checks(d))
       IN tasks' = (tasks \ {t}) \cup
              {IF held \/ last
               THEN AfterScan(Scan(Checked([t EXCEPT !.j = 0], held)))
               ELSE [t EXCEPT !.j = @ + 1]}
    /\ ev' = NoEv
    /\ UNCHANGED <<blockedDomains, pausedUntilTs, pausedDomains, pendingGrants,
                   perms, rules, alarms, now, syncing, needsResync,
                   debounceTimer, changes>>

\* One chrome.permissions.contains(q) of the loop of hasHostAccess has
\* settled: t.j patterns of Checks have been queried before. A pattern that is
\* held ends the loop with true; a query that throws, or a pattern not held,
\* goes on to the next pattern, and the last one ends the loop with false. A
\* malformed domain is denied without a query.            (part_000:90-113)
Query(t, throws) ==
    /\ t.pc = "oracle"
    /\ LET d == t.sBlocked[t.i]
           held == d # "" /\ ~throws /\ Contains(perms, Checks(d)[t.j + 1])
           last == d = "" \/ t.j + 1 = Len(Checks(d))
       IN tasks' = (tasks \ {t}) \cup
              {IF held \/ last
               THEN AfterScan(Scan(Checked([t EXCEPT !.j = 0], held)))
               ELSE [t EXCEPT !.j = @ + 1]}
    /\ ev' = NoEv
    /\ UNCHANGED <<blockedDomains, pausedUntilTs, pausedDomains, pendingGrants,
                   perms, rules, alarms, now, syncing, needsResync,
                   debounceTimer, changes>>

\* storage.local.set({pendingGrants: pending}) has returned (part_000:145-147)
SetPending(t) ==
    /\ t.pc = "setPending"
    /\ pendingGrants' = t.pending
    /\ changes' = Notify(pendingGrants, t.pending, LocalChange)
    /\ tasks' = (tasks \ {t}) \cup {AfterSweep(t)}
    /\ ev' = [NoEv EXCEPT !.wrote = "pendingGrants"]
    /\ UNCHANGED <<blockedDomains, pausedUntilTs, pausedDomains, perms, rules,
                   alarms, now, syncing, needsResync, debounceTimer>>

\* storage.sync.set({blockedDomains: uniqSorted}) has returned (part_000:150-153)
SetBlocked(t) ==
    /\ t.pc = "setBlocked"
    /\ blockedDomains' = UniqSorted(t.allowed)
    /\ changes' = Notify(blockedDomains, UniqSorted(t.allowed),
                         SyncChange(blockedDomains, UniqSorted(t.allowed)))
    /\ tasks' = (tasks \ {t}) \cup {Compile(t)}
    /\ ev' = [NoEv EXCEPT !.wrote = "blockedDomains"]
    /\ UNCHANGED <<pausedUntilTs, pausedDomains, pendingGrants, perms, rules,
                   alarms, now, syncing, needsResync, debounceTimer>>

\* a pass that takes every installed rule for its own
GetRulesAll(t) ==
    /\ t.pc = "getRules"
    /\ tasks' = (tasks \ {t}) \cup
           {[t EXCEPT !.pc = "updateRules", !.ourIds = {r.id : r \in rules}]}
    /\ ev' = NoEv
    /\ UNCHANGED <<blockedDomains, pausedUntilTs, pausedDomains, pendingGrants,
                   perms, rules, alarms, now, syncing, needsResync,
                   debounceTimer, changes>>

\* getDynamicRules() has returned                          (part_000:218-221)
GetRules(t) ==
    /\ t.pc = "getRules"
    /\ tasks' = (tasks \ {t}) \cup
           {[t EXCEPT !.pc = "updateRules",
                      !.ourIds = {r.id : r \in {x \in rules : InRange(x.id)}}]}
    /\ ev' = NoEv
    /\ UNCHANGED <<blockedDomains, pausedUntilTs, pausedDomains, pendingGrants,
                   perms, rules, alarms, now, syncing, needsResync,
                   debounceTimer, changes>>

\* an update that removes nothing
UpdatedKeeps(installed, removeIds, add) ==
    installed \cup {add[k] : k \in 1..Len(add)}

\* updateDynamicRules: all or nothing; an added identifier that is still
\* installed rejects the call.
Updated(installed, removeIds, add) ==
    LET kept == {r \in installed : r.id \notin removeIds}
        new == {add[k] : k \in 1..Len(add)}
    IN IF \E a \in new, k \in kept : a.id = k.id THEN installed ELSE kept \cup new

UpdateFails(installed, removeIds, add) ==
    \E k \in 1..Len(add), r \in installed : r.id \notin removeIds /\ r.id = add[k].id

\* an update that removes the old rules and adds none
UpdateRulesRemoves(t) ==
    /\ t.pc = "updateRules"
    /\ rules' = {r \in rules : r.id \notin t.ourIds}
    /\ Finally(t, tasks \ {t})
    /\ UNCHANGED <<blockedDomains, pausedUntilTs, pausedDomains, pendingGrants,
                   perms, now, debounceTimer, changes>>

\* updateDynamicRules() has returned; the finally block runs (part_000:224-236)
UpdateRules(t) ==
    /\ t.pc = "updateRules"
    /\ rules' = Updated(rules, t.ourIds, t.desired)
    /\ Finally([t EXCEPT !.err = @ \/ UpdateFails(rules, t.ourIds, t.desired)], tasks \ {t})
    /\ UNCHANGED <<blockedDomains, pausedUntilTs, pausedDomains, pendingGrants,
                   perms, now, debounceTimer, changes>>

\* updateDynamicRules() is rejected by the browser (rule limits, an internal
\* error): nothing is installed and the finally block runs with the exception
\* pending                                                 (part_000:224-236)
FailUpdate(t) ==
    /\ t.pc = "updateRules"
    /\ Finally([t EXCEPT !.err = TRUE], tasks \ {t})
    /\ UNCHANGED <<blockedDomains, pausedUntilTs, pausedDomains, pendingGrants,
                   perms, rules, now, debounceTimer, changes>>

\* A call the pass awaits is rejected: getState, getPendingGrants, a
\* storage.set of reconcileDomains or getDynamicRules.  Nothing is written
\* and the finally block runs with the exception pending.   (part_000:201-236)
FailStep(t) ==
    /\ t.pc \in {"getState", "getPending", "setPending", "setBlocked", "getRules"}
    /\ Finally([t EXCEPT !.err = TRUE], tasks \ {t})
    /\ UNCHANGED <<blockedDomains, pausedUntilTs, pausedDomains, pendingGrants,
                   perms, rules, now, debounceTimer, changes>>

\* ------------------------------------------------------ storage helpers
\* a resume that zeroes the entry and leaves it in the map
EditedZeroes(m, d, until, at) == Put(m, d, until)

\* setDomainPause / setPendingGrant after their read: set the entry when
\* `untilTs && untilTs > Date.now()`, delete it otherwise.
Edited(m, d, until, at) == IF until # 0 /\ until > at THEN Put(m, d, until) ELSE Del(m, d)

\* setGlobalPause(untilTs) has returned                      (part_000:29-31)
GpSet(t) ==
    /\ t.pc = "gpSet"
    /\ pausedUntilTs' = t.until
    /\ changes' = Notify(pausedUntilTs, t.until, LocalChange)
    /\ IF t.kind = "pauseForMinutes"
       THEN CallSync(t, tasks \ {t}, alarms)
       ELSE /\ tasks' = (tasks \ {t}) \cup {[t EXCEPT !.pc = "clrSet"]}
            /\ ev' = NoEv
            /\ UNCHANGED <<alarms, syncing, needsResync>>
    /\ UNCHANGED <<blockedDomains, pausedDomains, pendingGrants, perms, rules,
                   now, debounceTimer>>

\* clearAllDomainPauses() has returned                        (part_000:51-53)
ClrSet(t) ==
    /\ t.pc = "clrSet"
    /\ pausedDomains' = EmptyMap
    /\ changes' = Notify(pausedDomains, EmptyMap, LocalChange)
    /\ CallSync(t, tasks \ {t}, alarms)
    /\ UNCHANGED <<blockedDomains, pausedUntilTs, pendingGrants, perms, rules,
                   now, debounceTimer>>

\* setDomainPause: storage.local.get("pausedDomains") has returned (part_000:39-44)
PdGet(t) ==
    /\ t.pc = "pdGet"
    /\ tasks' = (tasks \ {t}) \cup
           {[t EXCEPT !.pc = "pdSet", !.m = Edited(pausedDomains, t.d, t.until, now)]}
    /\ ev' = NoEv
    /\ UNCHANGED <<blockedDomains, pausedUntilTs, pausedDomains, pendingGrants,
                   perms, rules, alarms, now, syncing, needsResync,
                   debounceTimer, changes>>

\* setDomainPause: storage.local.set({pausedDomains}) has returned (part_000:45)
PdSet(t) ==
    /\ t.pc = "pdSet"
    /\ pausedDomains' = t.m
    /\ changes' = Notify(pausedDomains, t.m, LocalChange)
    /\ CallSync([t EXCEPT !.m = EmptyMap], tasks \ {t}, alarms)
    /\ UNCHANGED <<blockedDomains, pausedUntilTs, pendingGrants, perms, rules,
                   now, debounceTimer>>

\* setPendingGrant: getPendingGrants() has returned          (part_000:73-78)
PgGet(t) ==
    /\ t.pc = "pgGet"
    /\ tasks' = (tasks \ {t}) \cup
           {[t EXCEPT !.pc = "pgSet", !.m = Edited(pendingGrants, t.d, t.until, now)]}
    /\ ev' = NoEv
    /\ UNCHANGED <<blockedDomains, pausedUntilTs, pausedDomains, pendingGrants,
                   perms, rules, alarms, now, syncing, needsResync,
                   debounceTimer, changes>>

\* setPendingGrant: storage.local.set({pendingGrants}) has returned (part_000:79);
\* markPending answers, markGranted goes on to syncRules, the blocklist-change
\* listener goes on to its next added domain and ends with scheduleSync.
PgSet(t) ==
    /\ t.pc = "pgSet"
    /\ pendingGrants' = t.m
    /\ changes' = Notify(pendingGrants, t.m, LocalChange)
    /\ CASE t.kind = "markGranted" ->
              /\ CallSync([t EXCEPT !.m = EmptyMap], tasks \ {t}, alarms)
              /\ UNCHANGED debounceTimer
         [] t.kind = "markPending" ->
              /\ tasks' = tasks \ {t}
              /\ ev' = [NoEv EXCEPT !.done = "markPending", !.resp = "markPending",
                                     !.d = t.d]
              /\ UNCHANGED <<alarms, syncing, needsResync, debounceTimer>>
         [] OTHER ->
              /\ IF t.j < Len(t.added)
                 THEN /\ tasks' = (tasks \ {t}) \cup
                            {[t EXCEPT !.pc = "pgGet", !.m = EmptyMap,
                                       !.j = @ + 1, !.d = t.added[t.j + 1]]}
                      /\ UNCHANGED debounceTimer
                 ELSE /\ tasks' = tasks \ {t}
                      /\ scheduleSync
              /\ ev' = [NoEv EXCEPT !.done = IF t.j < Len(t.added) THEN "" ELSE t.kind]
              /\ UNCHANGED <<alarms, syncing, needsResync>>
    /\ UNCHANGED <<blockedDomains, pausedUntilTs, pausedDomains, perms, rules, now>>

\* storage.local.set() is rejected (quota, I/O): nothing is written.  The
\* exception ends a command in the catch of the onMessage listener, which
\* answers {ok: false} (part_000:385-388), and ends an alarm handler; the
\* blocklist-change listener catches it and goes on (l.419-423).
FailSet(t) ==
    /\ t.pc \in {"gpSet", "clrSet", "pdSet", "pgSet"}
    /\ IF t.kind = "onChanged" /\ t.j < Len(t.added)
       THEN /\ tasks' = (tasks \ {t}) \cup
                  {[t EXCEPT !.pc = "pgGet", !.m = EmptyMap, !.j = @ + 1,
                             !.d = t.added[t.j + 1]]}
            /\ ev' = NoEv
            /\ UNCHANGED debounceTimer
       ELSE /\ tasks' = tasks \ {t}
            /\ ev' = [NoEv EXCEPT !.done = t.kind, !.d = t.d, !.h = hist,
                                   !.ok = t.kind = "onChanged",
                                   !.resp = IF t.kind \in CommandKinds THEN t.kind ELSE ""]
            /\ IF t.kind = "onChanged" THEN scheduleSync ELSE UNCHANGED debounceTimer
    /\ UNCHANGED <<blockedDomains, pausedUntilTs, pausedDomains, pendingGrants,
                   perms, rules, alarms, now, syncing, needsResync, changes>>

\* resumeAllNow: chrome.alarms.getAll() has returned; every per-domain resume
\* alarm is cleared                                         (part_000:263-268)
GetAllAlarms(t) ==
    /\ t.pc = "getAllAlarms"
    /\ alarms' = [a \in {x \in DOMAIN alarms : x.name # "fg:resume:"} |-> alarms[a]]
    /\ tasks' = tasks \ {t}
    /\ ev' = [NoEv EXCEPT !.done = t.kind,
                           !.resp = IF t.kind = "resumeNow" THEN "resumeNow" ELSE ""]
    /\ UNCHANGED <<blockedDomains, pausedUntilTs, pausedDomains, pendingGrants,
                   perms, rules, now, syncing, needsResync, debounceTimer,
                   changes>>

\* ------------------------------------------------------------- commands
Room(t) == Cardinality(tasks) < MaxTasks /\ t \notin tasks

\* runtime.onMessage {cmd: "syncRules"}                    (part_000:338-340)
CmdSyncRules ==
    /\ syncing \/ Cardinality(tasks) < MaxTasks
    /\ CallSync([Blank EXCEPT !.kind = "syncRules"], tasks, alarms)
    /\ UNCHANGED <<blockedDomains, pausedUntilTs, pausedDomains, pendingGrants,
                   perms, rules, now, debounceTimer, changes>>

Spawn(t) ==
    /\ Room(t)
    /\ tasks' = tasks \cup {t}
    /\ ev' = NoEv
    /\ UNCHANGED <<blockedDomains, pausedUntilTs, pausedDomains, pendingGrants,
                   perms, rules, alarms, now, syncing, needsResync,
                   debounceTimer, changes>>

\* {cmd: "pauseForMinutes", minutes}: pauseAllForMinutes up to its first await
CmdPauseForMinutes(m) ==
    Spawn([Blank EXCEPT !.kind = "pauseForMinutes", !.pc = "gpSet",
                        !.until = now + m * MINUTE_MS])

\* {cmd: "resumeNow"}: resumeAllNow up to its first await
CmdResumeNow == Spawn([Blank EXCEPT !.kind = "resumeNow", !.pc = "gpSet"])

\* {cmd: "pauseDomain", domain, minutes}
CmdPauseDomain(d, m) ==
    Spawn([Blank EXCEPT !.kind = "pauseDomain", !.pc = "pdGet", !.d = d,
                        !.until = now + m * MINUTE_MS])

\* {cmd: "resumeDomain", domain}
CmdResumeDomain(d) ==
    Spawn([Blank EXCEPT !.kind = "resumeDomain", !.pc = "pdGet", !.d = d])

\* {cmd: "markPending", domain}
CmdMarkPending(d) ==
    Spawn([Blank EXCEPT !.kind = "markPending", !.pc = "pgGet", !.d = d,
                        !.until = now + PENDING_MS])

\* {cmd: "markGranted", domain}
CmdMarkGranted(d) ==
    Spawn([Blank EXCEPT !.kind = "markGranted", !.pc = "pgGet", !.d = d])

\* ---------------------------------------------------------- the router
\* A message field that is a number where a string is expected; a missing
\* field (undefined) and the empty string are "".
NotAString == "<number>"
\* typeof d === 'string'
IsString(d) == d # NotAString
\* the JS truth value of a field: undefined and "" are falsy
JsTruthy(d) == d # ""
\* typeof msg.minutes === 'number' && msg.minutes > 0     (part_000:343, 354)
MinutesOk(msg) == msg.numeric /\ msg.minutes > 0

DomainCommands == {"pauseDomain", "resumeDomain", "markPending", "markGranted"}

\* the message is unknown or lacks a required field of the required type
Invalid(msg) ==
    \/ msg.cmd \notin CommandKinds
    \/ msg.cmd \in {"pauseForMinutes", "pauseDomain"} /\ ~MinutesOk(msg)
    \/ msg.cmd \in DomainCommands /\ ~(JsTruthy(msg.domain) /\ IsString(msg.domain))

\* sendResponse without an await in between
Answer(msg, ok) ==
    /\ ev' = [NoEv EXCEPT !.done = msg.cmd, !.resp = msg.cmd, !.ok = ok,
                           !.d = msg.domain, !.invalid = Invalid(msg)]
    /\ UNCHANGED <<blockedDomains, pausedUntilTs, pausedDomains, pendingGrants,
                   perms, rules, alarms, now, syncing, needsResync,
                   debounceTimer, changes, tasks>>

\* chrome.runtime.onMessage listener up to its first await  (part_000:334-391);
\* pauseDomainForMinutes and resumeDomainNow return at once for a domain that is
\* no string (l.278, 293) and the listener then answers {ok: true}.
OnMessage(msg) ==
    CASE msg.cmd = "syncRules" -> CmdSyncRules
      [] msg.cmd = "pauseForMinutes" ->
            IF MinutesOk(msg) THEN CmdPauseForMinutes(msg.minutes)
            ELSE Answer(msg, FALSE)
      [] msg.cmd = "resumeNow" -> CmdResumeNow
      [] msg.cmd = "pauseDomain" ->
            IF JsTruthy(msg.domain) /\ MinutesOk(msg)
            THEN IF IsString(msg.domain) THEN CmdPauseDomain(msg.domain, msg.minutes)
                 ELSE Answer(msg, TRUE)
            ELSE Answer(msg, FALSE)
      [] msg.cmd = "resumeDomain" ->
            IF JsTruthy(msg.domain)
            THEN IF IsString(msg.domain) THEN CmdResumeDomain(msg.domain)
                 ELSE Answer(msg, TRUE)
            ELSE Answer(msg, FALSE)
      [] msg.cmd = "markPending" ->
            IF JsTruthy(msg.domain) THEN CmdMarkPending(msg.domain)
            ELSE Answer(msg, FALSE)
      [] msg.cmd = "markGranted" ->
            IF JsTruthy(msg.domain) THEN CmdMarkGranted(msg.domain)
            ELSE Answer(msg, FALSE)
      [] OTHER -> Answer(msg, FALSE)

\* --------------------------------------------------------------- events
\* chrome.storage.onChanged listener                       (part_000:409-431)
OnChanged(c) ==
    /\ c \in changes
    /\ changes' = changes \ {c}
    /\ IF c.area = "sync" /\ c.added # <<>>
       THEN /\ Room([Blank EXCEPT !.kind = "onChanged", !.pc = "pgGet",
                                  !.added = c.added, !.j = 1, !.d = c.added[1],
                                  !.until = now + PENDING_MS])
            /\ tasks' = tasks \cup
                   {[Blank EXCEPT !.kind = "onChanged", !.pc = "pgGet",
                                  !.added = c.added, !.j = 1, !.d = c.added[1],
                                  !.until = now + PENDING_MS]}
            /\ UNCHANGED debounceTimer
       ELSE /\ scheduleSync
            /\ UNCHANGED tasks
    /\ ev' = NoEv
    /\ UNCHANGED <<blockedDomains, pausedUntilTs, pausedDomains, pendingGrants,
                   perms, rules, alarms, now, syncing, needsResync>>

\* a callback that leaves the handle set
DebounceFireKeeps ==
    /\ debounceTimer
    /\ debounceTimer' = debounceTimer
    /\ syncing \/ Cardinality(tasks) < MaxTasks
    /\ CallSync([Blank EXCEPT !.kind = "debounce"], tasks, alarms)
    /\ UNCHANGED <<blockedDomains, pausedUntilTs, pausedDomains, pendingGrants,
                   perms, rules, now, changes>>

\* the debounce timer fires                                 (part_000:401-404)
DebounceFire ==
    /\ debounceTimer
    /\ debounceTimer' = FALSE
    /\ syncing \/ Cardinality(tasks) < MaxTasks
    /\ CallSync([Blank EXCEPT !.kind = "debounce"], tasks, alarms)
    /\ UNCHANGED <<blockedDomains, pausedUntilTs, pausedDomains, pendingGrants,
                   perms, rules, now, changes>>

\* chrome.alarms.onAlarm listener up to its first await     (part_000:436-450)
OnAlarm(a) ==
    /\ a \in DOMAIN alarms
    /\ alarms[a] <= now
    /\ alarms' = Del(alarms, a)
    /\ LET t == IF a = GlobalAlarm
                THEN [Blank EXCEPT !.kind = "alarmAll", !.pc = "gpSet"]
                ELSE [Blank EXCEPT !.kind = "alarmDomain", !.pc = "pdGet", !.d = a.d]
       IN /\ Room(t)
          /\ tasks' = tasks \cup {t}
    /\ ev' = NoEv
    /\ UNCHANGED <<blockedDomains, pausedUntilTs, pausedDomains, pendingGrants,
                   perms, rules, now, syncing, needsResync, debounceTimer,
                   changes>>

\* chrome.permissions.onAdded / onRemoved listeners         (part_000:303-304)
PermissionsChanged(held) ==
    /\ held # perms
    /\ perms' = held
    /\ syncing \/ Cardinality(tasks) < MaxTasks
    /\ CallSync([Blank EXCEPT !.kind = "permEvent"], tasks, alarms)
    /\ UNCHANGED <<blockedDomains, pausedUntilTs, pausedDomains, pendingGrants,
                   rules, now, debounceTimer, changes>>

\* the user grants or revokes the origins of a domain, or "on all sites"
GrantOrigins(d) == PermissionsChanged(perms \cup OriginsOf(d))
RevokeOrigins(d) == PermissionsChanged(perms \ OriginsOf(d))
GrantAllSites == PermissionsChanged(perms \cup {AllSites})
RevokeAllSites == PermissionsChanged(perms \ {AllSites})

\* chrome.runtime.onInstalled listener                      (part_000:307-309)
OnInstalled ==
    /\ syncing \/ Cardinality(tasks) < MaxTasks
    /\ CallSync([Blank EXCEPT !.kind = "onInstalled"], tasks, alarms)
    /\ UNCHANGED <<blockedDomains, pausedUntilTs, pausedDomains, pendingGrants,
                   perms, rules, now, debounceTimer, changes>>

\* The browser restarts: the worker's module state and suspended handlers are
\* gone, storage and installed rules persist, armed alarms may or may not
\* survive; chrome.runtime.onStartup is raised.
Restart ==
    /\ tasks' = {[Blank EXCEPT !.kind = "onStartup", !.pc = "stGet"]}
    /\ syncing' = FALSE
    /\ needsResync' = FALSE
    /\ debounceTimer' = FALSE
    /\ changes' = {}
    /\ alarms' \in {alarms, EmptyMap}
    /\ ev' = [NoEv EXCEPT !.restart = TRUE]
    /\ UNCHANGED <<blockedDomains, pausedUntilTs, pausedDomains, pendingGrants,
                   perms, rules, now>>

\* a startup handler that re-creates the global alarm only
RestoredGlobal(al, until, paused, at) ==
    IF until # 0 /\ at < until THEN Put(al, GlobalAlarm, until) ELSE al

\* the alarms onStartup re-creates                          (part_000:316-326)
Restored(al, until, paused, at) ==
    LET g == IF until # 0 /\ at < until THEN Put(al, GlobalAlarm, until) ELSE al
        live == {d \in DOMAIN paused : paused[d] # 0 /\ at < paused[d]}
    IN [a \in (DOMAIN g) \cup {DomainAlarm(d) : d \in live} |->
           IF a.name = "fg:resume:" /\ a.d \in live THEN paused[a.d] ELSE g[a]]

\* onStartup: getState() has returned                       (part_000:313-328)
StGet(t) ==
    /\ t.pc = "stGet"
    /\ CallSync(t, tasks \ {t}, Restored(alarms, pausedUntilTs, pausedDomains, now))
    /\ UNCHANGED <<blockedDomains, pausedUntilTs, pausedDomains, pendingGrants,
                   perms, rules, now, debounceTimer, changes>>

\* --------------------------------------------------------- the environment
\* popup setBlocked: storage.sync.set of the normalised, deduplicated, sorted
\* list                                                      (popup.js:218-223)
UiSetBlocked(S) ==
    /\ SortedSeq(S) # blockedDomains
    /\ blockedDomains' = SortedSeq(S)
    /\ changes' = changes \cup {SyncChange(blockedDomains, SortedSeq(S))}
    /\ ev' = NoEv
    /\ UNCHANGED <<pausedUntilTs, pausedDomains, pendingGrants, perms, rules,
                   alarms, now, syncing, needsResync, debounceTimer, tasks>>

\* popup setBlocked(domains): storage.sync.set of the normalised list has
\* returned and {cmd: "syncRules"} reaches the worker       (popup.js:218-226)
PopupSetBlocked(list) ==
    /\ blockedDomains' = NormalList(list)
    /\ changes' = Notify(blockedDomains, NormalList(list),
                         SyncChange(blockedDomains, NormalList(list)))
    /\ syncing \/ Cardinality(tasks) < MaxTasks
    /\ CallSync([Blank EXCEPT !.kind = "syncRules"], tasks, alarms)
    /\ UNCHANGED <<pausedUntilTs, pausedDomains, pendingGrants, perms, rules,
                   now, debounceTimer>>

\* The add-domain handler of the popup                     (popup.js:365-411)
\* getBlocked() has returned and {cmd: "markPending"} reaches the worker
FlowStart(d) == CmdMarkPending(d)

\* markPending was answered: `if (!original.includes(d)) setBlocked([...original, d])`
FlowAdd(original, d) ==
    /\ d \notin SeqToSet(original)
    /\ PopupSetBlocked(Append(original, d))

\* the user has denied the permission request: setBlocked(original)
FlowRestore(original) == PopupSetBlocked(original)

\* the restoring setBlocked has returned and {cmd: "markGranted"} reaches the worker
FlowGranted(d) == CmdMarkGranted(d)

\* popup setBlocked(domains) with a list as the user or an import file gives it
\*                                                      (popup.js:218-223)
UiDeclare(list) ==
    /\ blockedDomains' = NormalList(list)
    /\ changes' = Notify(blockedDomains, NormalList(list),
                         SyncChange(blockedDomains, NormalList(list)))
    /\ ev' = [NoEv EXCEPT !.declared = TRUE, !.arg = list]
    /\ UNCHANGED <<pausedUntilTs, pausedDomains, pendingGrants, perms, rules,
                   alarms, now, syncing, needsResync, debounceTimer, tasks>>

\* the clock advances
Tick(step) ==
    /\ now + step <= MaxTicks * MINUTE_MS
    /\ now' = now + step
    /\ ev' = NoEv
    /\ UNCHANGED <<blockedDomains, pausedUntilTs, pausedDomains, pendingGrants,
                   perms, rules, alarms, syncing, needsResync, debounceTimer,
                   changes, tasks>>

\* ---------------------------------------------------------------- history
\* domains that have neither host access nor a pending grant unexpired at `at`
LiveDenied(held, pending, at) ==
    {d \in Domains : ~hasHostAccess(held, d) /\ ~InPending(pending, d, at)}

\* a change of the persisted state, the permissions or the clock that no pass made
Outside ==
    /\ ev'.wrote = ""
    /\ <<blockedDomains, pausedUntilTs, pausedDomains, pendingGrants, perms, now>>' #
       <<blockedDomains, pausedUntilTs, pausedDomains, pendingGrants, perms, now>>

UiAdd == IF ev'.wrote = "" THEN SeqToSet(blockedDomains') \ SeqToSet(blockedDomains) ELSE {}
Dropped == IF ev'.wrote = "blockedDomains"
           THEN SeqToSet(blockedDomains) \ SeqToSet(blockedDomains') ELSE {}

\* a suspended pass went away without ending: the worker restarted
Killed == ev'.restart /\ InFlight # {}

\* a command of kind k for domain d is being handled after the step
Handling(k, d) == \E t \in tasks' : t.kind = k /\ t.d = d

\* the listener has yet to record the pending grant of the added domain d
Listening(d) ==
    \/ \E c \in changes' : c.area = "sync" /\ d \in SeqToSet(c.added)
    \/ \E t \in tasks' : t.kind = "onChanged" /\ d \in SeqToSet(t.added)

UiRemove == IF ev'.wrote = "" THEN SeqToSet(blockedDomains) \ SeqToSet(blockedDomains') ELSE {}

NoAccess(held) == {d \in Domains : ~hasHostAccess(held, d)}

\* the pauses as persisted: scope -> expiry
Pauses(until, paused) ==
    [a \in {GlobalAlarm} \cup {DomainAlarm(d) : d \in DOMAIN paused} |->
        IF a = GlobalAlarm THEN until ELSE paused[a.d]]

\* the fields of the history after the step
ObsCoalesced ==
    IF ev'.passStart THEN 0
    ELSE IF ev'.early THEN Bump(hist.coalesced) ELSE hist.coalesced
\* the clock as the pass in flight has read it (part_000:122), the clock itself
\* while no pass has read it
PassClock ==
    IF \E t \in InFlight' : t.pc # "getState"
    THEN (CHOOSE t \in InFlight' : t.pc # "getState").rnow
    ELSE now'

ObsUnauth ==
    IF ev'.passStart THEN LiveDenied(perms', pendingGrants', now')
    ELSE hist.unauth \cap LiveDenied(perms', pendingGrants', PassClock)
ObsUiAdded == IF ev'.passStart THEN {} ELSE hist.uiAdded \cup UiAdd
ObsRemoved == (hist.removed \cup Dropped) \ UiAdd
ObsPrev == IF ev'.passStart THEN rules' ELSE hist.prev
ObsCalm ==
    IF ev'.passStart THEN (IF Outside \/ hist.calm = 0 THEN 1 ELSE 2)
    ELSE IF Outside \/ Killed THEN 0 ELSE hist.calm
ObsWrote == IF ev'.passStart THEN FALSE ELSE hist.wrote \/ ev'.wrote # ""
ObsGraceUntil ==
    LET opened == IF ev'.resp = "markPending" /\ ev'.d \in DOMAIN pendingGrants'
                  THEN Put(hist.graceUntil, ev'.d, pendingGrants'[ev'.d])
                  ELSE hist.graceUntil
    IN [d \in {x \in DOMAIN opened : opened[x] > now' /\ ~Handling("markGranted", x)} |->
           opened[d]]
ObsGraced ==
    IF ev'.passStart
    THEN (DOMAIN ObsGraceUntil) \cap SeqToSet(blockedDomains')
    ELSE (hist.graced \cap DOMAIN ObsGraceUntil) \ UiRemove
ObsEnded ==
    LET closed == IF ev'.resp = "markGranted" THEN hist.ended \cup {ev'.d} ELSE hist.ended
    IN {d \in closed : ~Handling("markPending", d) /\ ~Listening(d) /\ d \notin UiAdd}
ObsEndedIn ==
    IF ev'.passStart THEN ObsEnded \cap NoAccess(perms')
    ELSE hist.endedIn \cap ObsEnded \cap NoAccess(perms')
ObsBoot ==
    LET restart == ev'.restart
        before == Pauses(pausedUntilTs, pausedDomains)
        after == Pauses(pausedUntilTs', pausedDomains')
    IN IF restart THEN {a \in DOMAIN after : after[a] # 0}
       ELSE {a \in hist.boot : a \in DOMAIN after /\ after[a] = before[a]}
ObsBootLost ==
    IF ev'.restart
    THEN alarms # EmptyMap /\ alarms' = EmptyMap
    ELSE hist.bootLost

\* a pass reads the persisted state in the step
Reads == \E t \in InFlight : t.pc = "getState" /\ \E u \in InFlight' : u.pc = "getPending"

\* syncRules() is called in the step (the trailing pass is no call)
Requested == ev'.early \/ (ev'.passStart /\ ~ev'.passEnd)

ObsOwed ==
    IF Requested THEN "asked"
    ELSE IF hist.owed = "asked" /\ Reads THEN "reading"
    ELSE IF hist.owed = "reading" /\ ev'.passEnd THEN "none"
    ELSE hist.owed
ObsLate == IF Requested THEN ev'.early ELSE hist.late

\* an installed rule of the reserved range matches the domain
HasRule(d) == \E r \in rules : InRange(r.id) /\ r.domain = d

\* d is blocklisted and authorised and neither a global pause nor a pause of d
\* is running: a pass that reads this state compiles a rule for d
Enforceable(d) ==
    /\ d \in SeqToSet(blockedDomains)
    /\ hasHostAccess(perms, d)
    /\ ~(pausedUntilTs # 0 /\ now < pausedUntilTs)
    /\ ~(Truthy(pausedDomains, d) /\ now < pausedDomains[d])

\* the per-domain resume timer of d fires in the step
Fires(d) ==
    /\ DomainAlarm(d) \in (DOMAIN alarms) \ (DOMAIN alarms')
    /\ \E t \in tasks' \ tasks : t.kind = "alarmDomain" /\ t.pc = "pdGet" /\ t.d = d

\* the handler of that timer writes pausedDomains without d in the step
Clears(d) ==
    /\ \E t \in tasks \ tasks' : t.kind = "alarmDomain" /\ t.d = d /\ t.pc = "pdSet"
    /\ d \notin DOMAIN pausedDomains'

ObsWake ==
    [d \in Domains |->
        IF Fires(d) THEN "fired"
        ELSE IF hist.wake[d] = "fired" /\ Clears(d) THEN "cleared"
        ELSE IF hist.wake[d] = "cleared" /\ (HasRule(d)' \/ ~Enforceable(d)') THEN "idle"
        ELSE hist.wake[d]]
ObsRaw == IF ev'.declared THEN ev'.arg ELSE hist.raw
ObsBy == IF ev'.declared THEN "popup" ELSE hist.by
ObsFresh == IF ev'.declared THEN FALSE ELSE hist.fresh \/ ev'.passStart

\* `list` is the lower-case, deduplicated, sorted form of `raw`
Normalised(list, raw) ==
    /\ SeqToSet(list) = {Lower(raw[i]) : i \in 1..Len(raw)}
    /\ \A i, j \in 1..Len(list) : i < j => Rank(list[i]) < Rank(list[j])

\* the rules of the reserved range are one per member of S, with distinct
\* identifiers
OnePerDomain(S) ==
    LET R == {r \in rules : InRange(r.id)} IN
    /\ {r.domain : r \in R} = S
    /\ \A d \in S : Cardinality({r \in R : r.domain = d}) = 1
    /\ Cardinality({r.id : r \in R}) = Cardinality(R)

\* the step writes persisted state, changes an alarm or the installed rules, or
\* asks for a pass
Touches ==
    \/ <<blockedDomains, pausedUntilTs, pausedDomains, pendingGrants, alarms, rules>>' #
       <<blockedDomains, pausedUntilTs, pausedDomains, pendingGrants, alarms, rules>>
    \/ ev'.passStart
    \/ needsResync' /\ ~needsResync

ObsTainted ==
    \/ hist.tainted
    \/ Touches /\ ev'.invalid
    \/ Touches /\ \E t \in tasks \ tasks' : ~IsString(t.d)

\* the persisted pause and pending state and the armed alarms
Snooze == <<pausedUntilTs, pausedDomains, pendingGrants, alarms>>

\* nothing is suspended, undelivered or scheduled
Quiet == tasks = {} /\ changes = {} /\ ~debounceTimer /\ ~syncing

ObsBefore ==
    LET new == {t \in tasks' \ tasks :
                   t.kind \in CommandKinds /\ t.pc \in {"gpSet", "pdGet", "pgGet"}}
    IN IF new = {} THEN hist.before
       ELSE IF Quiet
            THEN LET t == CHOOSE t \in new : TRUE
                 IN [cmd |-> t.kind, d |-> t.d, state |-> Snooze]
            ELSE NoHist.before

\* the pause or resumeNow commands whose handler starts in this step
Arriving ==
    {t.kind : t \in {u \in tasks' \ tasks :
                        /\ u.kind \in {"pauseForMinutes", "pauseDomain", "resumeNow"}
                        /\ u.pc \in {"gpSet", "pdGet"}}}

ObsLastCmd == IF Arriving = {} THEN hist.lastCmd ELSE CHOOSE k \in Arriving : TRUE

ObsResumed ==
    IF Arriving # {} THEN FALSE
    ELSE hist.resumed \/ (ev'.resp = "resumeNow" /\ ev'.ok /\ hist.lastCmd = "resumeNow")

\* The add-domain handler goes on when the worker answers the message it is
\* waiting for; `step` names the handler's own step, if this is one.
ObsFlow(step) ==
    LET f == hist.flow
        to(pc) == [f EXCEPT !.pc = pc]
    IN CASE step = "start" -> [pc |-> "markPending?", original |-> blockedDomains]
         [] step = "add" -> to(IF ev'.resp = "syncRules" THEN "ask" ELSE "added?")
         [] step = "restore" -> to(IF ev'.resp = "syncRules" THEN "grant" ELSE "restored?")
         [] step = "grant" -> to("markGranted?")
         [] OTHER ->
              CASE f.pc = "markPending?" /\ ev'.resp = "markPending" -> to("add")
                [] f.pc = "added?" /\ ev'.resp = "syncRules" -> to("ask")
                [] f.pc = "restored?" /\ ev'.resp = "syncRules" -> to("grant")
                [] f.pc = "markGranted?" /\ ev'.resp = "markGranted" -> to("done")
                [] OTHER -> f

\* the listener takes a notification
Taken == changes \ changes' # {}

\* the listener calls scheduleSync: at once, or after the last added domain
\* was marked pending                                      (part_000:417-429)
Called ==
    \/ Taken /\ ~\E t \in tasks' \ tasks : t.kind = "onChanged"
    \/ \E t \in tasks \ tasks' :
          t.kind = "onChanged" /\ t.pc = "pgSet" /\ t.j = Len(t.added)

\* the debouncer is at rest: no timeout set and no listener under way
AtRest == ~debounceTimer /\ ~\E t \in tasks : t.kind = "onChanged"

\* clearTimeout(_debounceTimer) drops the timeout the handle names and
\* setTimeout(..., ms) adds one due ms later (part_000:400-404); the callback
\* of a timeout runs once and the timeout is gone.
ObsDeb(fired) ==
    LET g == hist.deb
        taken == IF ~Taken THEN g
                 ELSE IF AtRest
                      THEN [g EXCEPT !.first = now, !.last = now, !.fires = 0, !.at = -1]
                      ELSE [g EXCEPT !.last = now]
        called == IF ~Called THEN taken
                  ELSE [taken EXCEPT !.timers = (@ \ {g.due}) \cup {now + DEBOUNCE_MS},
                                     !.due = now + DEBOUNCE_MS,
                                     !.calls = IF @ < MaxCoalesced THEN @ + 1 ELSE @]
    IN IF ~fired THEN called
       ELSE [called EXCEPT !.timers = @ \ {g.due},
                           !.fires = IF @ < MaxCoalesced THEN @ + 1 ELSE @,
                           !.at = now, !.calls = 0, !.since = g.calls,
                           !.wait = now - (g.due - DEBOUNCE_MS)]

ObsWakeBusy == IF \E d \in Domains : Fires(d) THEN syncing ELSE hist.wakeBusy

\* ------------------------------------------------------ the specifications
\* An idle worker after a completed pass at time 0: the domains of B are
\* blocklisted, those of G have their origins granted, those of P a live
\* pending grant; a pause set at time 0 has its alarm armed.
Compiled(B, until, paused) ==
    LET active == IF until # 0 THEN <<>>
                  ELSE SelectSeq(SortedSeq(B), LAMBDA d : d \notin DOMAIN paused)
    IN {DesiredRules(active)[k] : k \in 1..Len(active)}

Settled(B, G, P, until, paused) ==
    /\ blockedDomains = SortedSeq(B)
    /\ pausedUntilTs = until
    /\ pausedDomains = paused
    /\ pendingGrants = [d \in P |-> PENDING_MS]
    /\ perms = UNION {OriginsOf(d) : d \in G}
    /\ rules = Compiled(B, until, paused)
    /\ alarms = Restored(EmptyMap, until, paused, 0)
    /\ now = 0
    /\ syncing = FALSE
    /\ needsResync = FALSE
    /\ debounceTimer = FALSE
    /\ changes = {}
    /\ tasks = {}
    /\ ev = NoEv
    /\ hist = NoHist

\* a fresh installation
Init == Settled({}, {}, {}, 0, EmptyMap) /\ quota = MaxEvents

\* an event from outside the worker spends one unit of the budget; a step of
\* the worker is free
Spend == quota > 0 /\ quota' = quota - 1
Free == quota' = quota

\* Every handler and every event of the worker, from a fresh installation.
Observed == hist' = [NoHist EXCEPT !.coalesced = ObsCoalesced]

Next ==
    \/ (CmdSyncRules) /\ Spend /\ Observed
    \/ (\E m \in 1..MaxMinutes : CmdPauseForMinutes(m)) /\ Spend /\ Observed
    \/ (CmdResumeNow) /\ Spend /\ Observed
    \/ (\E d \in Domains, m \in 1..MaxMinutes : CmdPauseDomain(d, m)) /\ Spend /\ Observed
    \/ (\E d \in Domains : CmdResumeDomain(d)) /\ Spend /\ Observed
    \/ (\E d \in Domains : CmdMarkPending(d)) /\ Spend /\ Observed
    \/ (\E d \in Domains : CmdMarkGranted(d)) /\ Spend /\ Observed
    \/ (\E d \in Domains : GrantOrigins(d)) /\ Spend /\ Observed
    \/ (\E d \in Domains : RevokeOrigins(d)) /\ Spend /\ Observed
    \/ (GrantAllSites) /\ Spend /\ Observed
    \/ (RevokeAllSites) /\ Spend /\ Observed
    \/ (OnInstalled) /\ Spend /\ Observed
    \/ (Restart) /\ Spend /\ Observed
    \/ (\E S \in SUBSET Domains : UiSetBlocked(S)) /\ Spend /\ Observed
    \/ (Tick(PENDING_MS)) /\ Spend /\ Observed
    \/ (Tick(MINUTE_MS)) /\ Spend /\ Observed
    \/ (\E t \in tasks : GetState(t)) /\ Free /\ Observed
    \/ (\E t \in tasks : GetPending(t)) /\ Free /\ Observed
    \/ (\E t \in tasks : Oracle(t)) /\ Free /\ Observed
    \/ (\E t \in tasks : SetPending(t)) /\ Free /\ Observed
    \/ (\E t \in tasks : SetBlocked(t)) /\ Free /\ Observed
    \/ (\E t \in tasks : GetRules(t)) /\ Free /\ Observed
    \/ (\E t \in tasks : UpdateRules(t)) /\ Free /\ Observed
    \/ (\E t \in tasks : GpSet(t)) /\ Free /\ Observed
    \/ (\E t \in tasks : ClrSet(t)) /\ Free /\ Observed
    \/ (\E t \in tasks : PdGet(t)) /\ Free /\ Observed
    \/ (\E t \in tasks : PdSet(t)) /\ Free /\ Observed
    \/ (\E t \in tasks : PgGet(t)) /\ Free /\ Observed
    \/ (\E t \in tasks : PgSet(t)) /\ Free /\ Observed
    \/ (\E t \in tasks : GetAllAlarms(t)) /\ Free /\ Observed
    \/ (\E t \in tasks : StGet(t)) /\ Free /\ Observed
    \/ (\E c \in changes : OnChanged(c)) /\ Free /\ Observed
    \/ (DebounceFire) /\ Free /\ Observed
    \/ (\E a \in DOMAIN alarms : OnAlarm(a)) /\ Free /\ Observed

Spec == Init /\ [][Next]_vars

\* The permission gate: blocklist edits, permission changes, the pending-grant
\* commands and reconcile requests, from every settled state.
GateInit ==
    /\ \E G \in SUBSET Domains, B \in SUBSET Domains :
         B \subseteq G /\ Settled(B, G, {}, 0, EmptyMap)
    /\ quota = MaxEvents

GateObserved ==
    hist' = [NoHist EXCEPT !.unauth = ObsUnauth, !.uiAdded = ObsUiAdded,
                           !.removed = ObsRemoved, !.prev = ObsPrev,
                           !.calm = ObsCalm, !.wrote = ObsWrote]

GateNext ==
    \/ (CmdSyncRules) /\ Spend /\ GateObserved
    \/ (\E d \in Domains : CmdMarkPending(d)) /\ Spend /\ GateObserved
    \/ (\E d \in Domains : CmdMarkGranted(d)) /\ Spend /\ GateObserved
    \/ (\E d \in Domains : GrantOrigins(d)) /\ Spend /\ GateObserved
    \/ (\E d \in Domains : RevokeOrigins(d)) /\ Spend /\ GateObserved
    \/ (\E S \in SUBSET Domains : UiSetBlocked(S)) /\ Spend /\ GateObserved
    \/ (Tick(PENDING_MS)) /\ Spend /\ GateObserved
    \/ (\E t \in tasks : GetState(t)) /\ Free /\ GateObserved
    \/ (\E t \in tasks : GetPending(t)) /\ Free /\ GateObserved
    \/ (\E t \in tasks : Oracle(t)) /\ Free /\ GateObserved
    \/ (\E t \in tasks : SetPending(t)) /\ Free /\ GateObserved
    \/ (\E t \in tasks : SetBlocked(t)) /\ Free /\ GateObserved
    \/ (\E t \in tasks : GetRules(t)) /\ Free /\ GateObserved
    \/ (\E t \in tasks : UpdateRules(t)) /\ Free /\ GateObserved
    \/ (\E t \in tasks : PgGet(t)) /\ Free /\ GateObserved
    \/ (\E t \in tasks : PgSet(t)) /\ Free /\ GateObserved
    \/ (\E c \in changes : OnChanged(c)) /\ Free /\ GateObserved
    \/ (DebounceFire) /\ Free /\ GateObserved

GateSpec == GateInit /\ [][GateNext]_vars

\* The grace period: a domain is added and marked pending while the oracle
\* reports no access for it.  The popup has just written the first domain to
\* the blocklist of a fresh installation (UiSetBlocked) and the change has not
\* been delivered yet.
GraceInit ==
    /\ blockedDomains = <<DomainOrder[1]>>
    /\ changes = {SyncChange(<<>>, <<DomainOrder[1]>>)}
    /\ pausedUntilTs = 0
    /\ pausedDomains = EmptyMap
    /\ pendingGrants = EmptyMap
    /\ perms = {}
    /\ rules = {}
    /\ alarms = EmptyMap
    /\ now = 0
    /\ syncing = FALSE
    /\ needsResync = FALSE
    /\ debounceTimer = FALSE
    /\ tasks = {}
    /\ ev = NoEv
    /\ hist = NoHist
    /\ quota = MaxEvents

GraceObserved ==
    hist' = [NoHist EXCEPT !.graceUntil = ObsGraceUntil, !.graced = ObsGraced,
                           !.ended = ObsEnded, !.endedIn = ObsEndedIn]

GraceNext ==
    \/ (CmdSyncRules) /\ Spend /\ GraceObserved
    \/ (\E d \in Domains : CmdMarkPending(d)) /\ Spend /\ GraceObserved
    \/ (\E d \in Domains : CmdMarkGranted(d)) /\ Spend /\ GraceObserved
    \/ (Tick(PENDING_MS)) /\ Spend /\ GraceObserved
    \/ (\E t \in tasks : GetState(t)) /\ Free /\ GraceObserved
    \/ (\E t \in tasks : GetPending(t)) /\ Free /\ GraceObserved
    \/ (\E t \in tasks : Oracle(t)) /\ Free /\ GraceObserved
    \/ (\E t \in tasks : SetPending(t)) /\ Free /\ GraceObserved
    \/ (\E t \in tasks : SetBlocked(t)) /\ Free /\ GraceObserved
    \/ (\E t \in tasks : GetRules(t)) /\ Free /\ GraceObserved
    \/ (\E t \in tasks : UpdateRules(t)) /\ Free /\ GraceObserved
    \/ (\E t \in tasks : PgGet(t)) /\ Free /\ GraceObserved
    \/ (\E t \in tasks : PgSet(t)) /\ Free /\ GraceObserved
    \/ (\E c \in changes : OnChanged(c)) /\ Free /\ GraceObserved
    \/ (DebounceFire) /\ Free /\ GraceObserved

GraceSpec == GraceInit /\ [][GraceNext]_vars

\* The snooze timers: pauses, resumes, clock advances and restarts, with both
\* domains blocklisted and authorised and any pause set at time 0.
SnoozeInit ==
    /\ \E until \in {0, MINUTE_MS}, P \in SUBSET {DomainOrder[1]} :
         Settled(Domains, Domains, {}, until, [d \in P |-> MINUTE_MS])
    /\ quota = MaxEvents

SnoozeObserved == hist' = [NoHist EXCEPT !.boot = ObsBoot, !.bootLost = ObsBootLost]

SnoozeNext ==
    \/ (CmdSyncRules) /\ Spend /\ SnoozeObserved
    \/ (\E m \in 1..MaxMinutes : CmdPauseForMinutes(m)) /\ Spend /\ SnoozeObserved
    \/ (CmdResumeNow) /\ Spend /\ SnoozeObserved
    \/ (\E d \in Domains, m \in 1..MaxMinutes : CmdPauseDomain(d, m)) /\ Spend /\ SnoozeObserved
    \/ (\E d \in Domains : CmdResumeDomain(d)) /\ Spend /\ SnoozeObserved
    \/ (Restart) /\ Spend /\ SnoozeObserved
    \/ (Tick(MINUTE_MS)) /\ Spend /\ SnoozeObserved
    \/ (\E t \in tasks : GetState(t)) /\ Free /\ SnoozeObserved
    \/ (\E t \in tasks : GetPending(t)) /\ Free /\ SnoozeObserved
    \/ (\E t \in tasks : Oracle(t)) /\ Free /\ SnoozeObserved
    \/ (\E t \in tasks : GetRules(t)) /\ Free /\ SnoozeObserved
    \/ (\E t \in tasks : UpdateRules(t)) /\ Free /\ SnoozeObserved
    \/ (\E t \in tasks : GpSet(t)) /\ Free /\ SnoozeObserved
    \/ (\E t \in tasks : ClrSet(t)) /\ Free /\ SnoozeObserved
    \/ (\E t \in tasks : PdGet(t)) /\ Free /\ SnoozeObserved
    \/ (\E t \in tasks : PdSet(t)) /\ Free /\ SnoozeObserved
    \/ (\E t \in tasks : GetAllAlarms(t)) /\ Free /\ SnoozeObserved
    \/ (\E t \in tasks : StGet(t)) /\ Free /\ SnoozeObserved
    \/ (\E c \in changes : OnChanged(c)) /\ Free /\ SnoozeObserved
    \/ (DebounceFire) /\ Free /\ SnoozeObserved
    \/ (\E a \in DOMAIN alarms : OnAlarm(a)) /\ Free /\ SnoozeObserved

SnoozeSpec == SnoozeInit /\ [][SnoozeNext]_vars

\* Both domains are blocklisted and authorised and the worker is idle.
\* Reconcile requests from every caller that makes them on its own: the
\* syncRules command, permission events and the debounce timer armed by a
\* blocklist write.  Every suspended handler is resumed eventually: the calls
\* it awaits return and the event loop runs each continuation, delivers each
\* change notification and fires the debounce timer.
LiveInit == Settled(Domains, Domains, {}, 0, EmptyMap) /\ quota = MaxEvents

LiveObserved ==
    hist' = [NoHist EXCEPT !.coalesced = ObsCoalesced, !.owed = ObsOwed, !.late = ObsLate]

LiveResume ==
    \/ (\E t \in tasks : GetState(t)) /\ Free /\ LiveObserved
    \/ (\E t \in tasks : GetPending(t)) /\ Free /\ LiveObserved
    \/ (\E t \in tasks : Oracle(t)) /\ Free /\ LiveObserved
    \/ (\E t \in tasks : SetBlocked(t)) /\ Free /\ LiveObserved
    \/ (\E t \in tasks : GetRules(t)) /\ Free /\ LiveObserved
    \/ (\E t \in tasks : UpdateRules(t)) /\ Free /\ LiveObserved
    \/ (\E t \in tasks : PgGet(t)) /\ Free /\ LiveObserved
    \/ (\E t \in tasks : PgSet(t)) /\ Free /\ LiveObserved
    \/ (\E c \in changes : OnChanged(c)) /\ Free /\ LiveObserved
    \/ (DebounceFire) /\ Free /\ LiveObserved

LiveNext ==
    \/ (CmdSyncRules) /\ Spend /\ LiveObserved
    \/ (\E d \in Domains : GrantOrigins(d)) /\ Spend /\ LiveObserved
    \/ (\E d \in Domains : RevokeOrigins(d)) /\ Spend /\ LiveObserved
    \/ (\E S \in SUBSET Domains : UiSetBlocked(S)) /\ Spend /\ LiveObserved
    \/ LiveResume

LiveSpec == LiveInit /\ [][LiveNext]_vars /\ WF_vars(LiveResume)

\* The wake-up of a paused domain: the first domain is paused for a minute and
\* its timer is armed; the clock advances, reconcile requests, pauses, resumes
\* and revocations arrive.  Every suspended handler is resumed eventually and
\* a timer that is due fires.
WakeInit ==
    /\ Settled(Domains, Domains, {}, 0, [d \in {DomainOrder[1]} |-> MINUTE_MS])
    /\ quota = MaxEvents

WakeObserved ==
    hist' = [NoHist EXCEPT !.wake = ObsWake, !.wakeBusy = ObsWakeBusy, !.prev = ObsPrev]

WakeResume ==
    \/ (\E t \in tasks : GetState(t)) /\ Free /\ WakeObserved
    \/ (\E t \in tasks : GetPending(t)) /\ Free /\ WakeObserved
    \/ (\E t \in tasks : Oracle(t)) /\ Free /\ WakeObserved
    \/ (\E t \in tasks : SetBlocked(t)) /\ Free /\ WakeObserved
    \/ (\E t \in tasks : GetRules(t)) /\ Free /\ WakeObserved
    \/ (\E t \in tasks : UpdateRules(t)) /\ Free /\ WakeObserved
    \/ (\E t \in tasks : GpSet(t)) /\ Free /\ WakeObserved
    \/ (\E t \in tasks : PdGet(t)) /\ Free /\ WakeObserved
    \/ (\E t \in tasks : PdSet(t)) /\ Free /\ WakeObserved
    \/ (\E c \in changes : OnChanged(c)) /\ Free /\ WakeObserved
    \/ (DebounceFire) /\ Free /\ WakeObserved
    \/ (\E a \in DOMAIN alarms : OnAlarm(a)) /\ Free /\ WakeObserved

WakeNext ==
    \/ (CmdSyncRules) /\ Spend /\ WakeObserved
    \/ (\E m \in 1..MaxMinutes : CmdPauseForMinutes(m)) /\ Spend /\ WakeObserved
    \/ (\E d \in Domains, m \in 1..MaxMinutes : CmdPauseDomain(d, m)) /\ Spend /\ WakeObserved
    \/ (\E d \in Domains : CmdResumeDomain(d)) /\ Spend /\ WakeObserved
    \/ (\E d \in Domains : RevokeOrigins(d)) /\ Spend /\ WakeObserved
    \/ (Tick(MINUTE_MS)) /\ Spend /\ WakeObserved
    \/ WakeResume

WakeSpec == WakeInit /\ [][WakeNext]_vars /\ WF_vars(WakeResume)

\* Normalisation of the declared blocklist: every site is authorised ("on all
\* sites"), the synced blocklist holds any list of at most MaxList typed
\* domains, no pass has run yet; the popup declares lists through setBlocked
\* and reconcile requests arrive (one event less when a list is there already).
RawLists == UNION {[1..n -> RawDomains] : n \in 0..MaxList}

NormInit ==
    /\ blockedDomains \in RawLists
    /\ pausedUntilTs = 0
    /\ pausedDomains = EmptyMap
    /\ pendingGrants = EmptyMap
    /\ perms = {AllSites}
    /\ rules = {}
    /\ alarms = EmptyMap
    /\ now = 0
    /\ syncing = FALSE
    /\ needsResync = FALSE
    /\ debounceTimer = FALSE
    /\ changes = {}
    /\ tasks = {}
    /\ ev = NoEv
    /\ hist = [NoHist EXCEPT !.raw = blockedDomains, !.by = "storage"]
    /\ quota = IF blockedDomains = <<>> THEN MaxEvents ELSE MaxEvents - 1

NormObserved == hist' = [NoHist EXCEPT !.raw = ObsRaw, !.by = ObsBy, !.fresh = ObsFresh]

NormNext ==
    \/ (CmdSyncRules) /\ Spend /\ NormObserved
    \/ (\E list \in RawLists : UiDeclare(list)) /\ Spend /\ NormObserved
    \/ (\E t \in tasks : GetState(t)) /\ Free /\ NormObserved
    \/ (\E t \in tasks : GetPending(t)) /\ Free /\ NormObserved
    \/ (\E t \in tasks : Oracle(t)) /\ Free /\ NormObserved
    \/ (\E t \in tasks : GetRules(t)) /\ Free /\ NormObserved
    \/ (\E t \in tasks : UpdateRules(t)) /\ Free /\ NormObserved
    \/ (\E t \in tasks : PgGet(t)) /\ Free /\ NormObserved
    \/ (\E t \in tasks : PgSet(t)) /\ Free /\ NormObserved
    \/ (\E c \in changes : OnChanged(c)) /\ Free /\ NormObserved
    \/ (DebounceFire) /\ Free /\ NormObserved

NormSpec == NormInit /\ [][NormNext]_vars

\* The size of the blocklist.  blockedDomains is one item of chrome.storage.sync,
\* whose set() rejects an item of more than QUOTA_BYTES_PER_ITEM bytes of JSON;
\* an entry takes four bytes at least (a one-letter host, two quotes, a comma).
SYNC_ITEM_BYTES == 8192
ENTRY_BYTES == 4
MaxEntries == SYNC_ITEM_BYTES \div ENTRY_BYTES

\* n distinct domains (numbered, their names do not matter here)
Names(n) == [k \in 1..n |-> k]

\* The identifiers of the compiled rules: a pass over a blocklist of any size
\* the storage can hold, every domain authorised and none paused, is suspended
\* at getDynamicRules with its rules compiled; no rule is installed yet.
IdInit ==
    /\ \E n \in 0..MaxEntries :
         /\ blockedDomains = Names(n)
         /\ tasks = {Compile([Blank EXCEPT !.kind = "syncRules", !.sBlocked = Names(n),
                                            !.allowed = Names(n), !.i = n + 1])}
    /\ pausedUntilTs = 0
    /\ pausedDomains = EmptyMap
    /\ pendingGrants = EmptyMap
    /\ perms = {AllSites}
    /\ rules = {}
    /\ alarms = EmptyMap
    /\ now = 0
    /\ syncing = TRUE
    /\ needsResync = FALSE
    /\ debounceTimer = FALSE
    /\ changes = {}
    /\ ev = NoEv
    /\ hist = NoHist
    /\ quota = 0

IdObserved == hist' = NoHist

IdNext ==
    \/ (\E t \in tasks : GetRules(t)) /\ Free /\ IdObserved
    \/ (\E t \in tasks : UpdateRules(t)) /\ Free /\ IdObserved

IdSpec == IdInit /\ [][IdNext]_vars

\* Rules of other subsystems: dynamic rules with identifiers just below and
\* just above the reserved range, for domains that are also blocklisted.
Others == {domainRule(RULE_BASE - 1, DomainOrder[1]),
           domainRule(RULE_BASE + RULE_SPAN, DomainOrder[2])}

\* The reserved range: an idle worker after a completed pass, as in GateInit,
\* with the rules of other subsystems installed as well; reconcile requests,
\* permission changes, blocklist edits and global pauses arrive.
RangeInit ==
    /\ \E G \in SUBSET Domains, B \in SUBSET Domains :
         /\ B \subseteq G
         /\ blockedDomains = SortedSeq(B)
         /\ perms = UNION {OriginsOf(d) : d \in G}
         /\ rules = Compiled(B, 0, EmptyMap) \cup Others
    /\ pausedUntilTs = 0
    /\ pausedDomains = EmptyMap
    /\ pendingGrants = EmptyMap
    /\ alarms = EmptyMap
    /\ now = 0
    /\ syncing = FALSE
    /\ needsResync = FALSE
    /\ debounceTimer = FALSE
    /\ changes = {}
    /\ tasks = {}
    /\ ev = NoEv
    /\ hist = NoHist
    /\ quota = MaxEvents

RangeObserved == hist' = [NoHist EXCEPT !.prev = ObsPrev]

RangeNext ==
    \/ (CmdSyncRules) /\ Spend /\ RangeObserved
    \/ (\E m \in 1..MaxMinutes : CmdPauseForMinutes(m)) /\ Spend /\ RangeObserved
    \/ (\E d \in Domains : GrantOrigins(d)) /\ Spend /\ RangeObserved
    \/ (\E d \in Domains : RevokeOrigins(d)) /\ Spend /\ RangeObserved
    \/ (\E S \in SUBSET Domains : UiSetBlocked(S)) /\ Spend /\ RangeObserved
    \/ (\E t \in tasks : GetState(t)) /\ Free /\ RangeObserved
    \/ (\E t \in tasks : GetPending(t)) /\ Free /\ RangeObserved
    \/ (\E t \in tasks : Oracle(t)) /\ Free /\ RangeObserved
    \/ (\E t \in tasks : SetBlocked(t)) /\ Free /\ RangeObserved
    \/ (\E t \in tasks : GetRules(t)) /\ Free /\ RangeObserved
    \/ (\E t \in tasks : UpdateRules(t)) /\ Free /\ RangeObserved
    \/ (\E t \in tasks : GpSet(t)) /\ Free /\ RangeObserved
    \/ (\E t \in tasks : PgGet(t)) /\ Free /\ RangeObserved
    \/ (\E t \in tasks : PgSet(t)) /\ Free /\ RangeObserved
    \/ (\E c \in changes : OnChanged(c)) /\ Free /\ RangeObserved
    \/ (DebounceFire) /\ Free /\ RangeObserved

RangeSpec == RangeInit /\ [][RangeNext]_vars

\* The command router: both domains blocklisted and authorised, the worker
\* idle; messages of every command, and an unknown one, arrive with their
\* fields present, missing or of the wrong type.
Messages ==
    [cmd : CommandKinds \cup {"openPopup"},
     domain : {"", NotAString, DomainOrder[1]},
     minutes : 0..MaxMinutes,
     numeric : BOOLEAN]

RouterInit == Settled(Domains, Domains, {}, 0, EmptyMap) /\ quota = MaxEvents

RouterObserved == hist' = [NoHist EXCEPT !.tainted = ObsTainted]

RouterNext ==
    \/ (\E msg \in Messages : OnMessage(msg)) /\ Spend /\ RouterObserved
    \/ (\E t \in tasks : GetState(t)) /\ Free /\ RouterObserved
    \/ (\E t \in tasks : GetPending(t)) /\ Free /\ RouterObserved
    \/ (\E t \in tasks : Oracle(t)) /\ Free /\ RouterObserved
    \/ (\E t \in tasks : GetRules(t)) /\ Free /\ RouterObserved
    \/ (\E t \in tasks : UpdateRules(t)) /\ Free /\ RouterObserved
    \/ (\E t \in tasks : GpSet(t)) /\ Free /\ RouterObserved
    \/ (\E t \in tasks : ClrSet(t)) /\ Free /\ RouterObserved
    \/ (\E t \in tasks : PdGet(t)) /\ Free /\ RouterObserved
    \/ (\E t \in tasks : PdSet(t)) /\ Free /\ RouterObserved
    \/ (\E t \in tasks : PgGet(t)) /\ Free /\ RouterObserved
    \/ (\E t \in tasks : PgSet(t)) /\ Free /\ RouterObserved
    \/ (\E t \in tasks : GetAllAlarms(t)) /\ Free /\ RouterObserved
    \/ (\E c \in changes : OnChanged(c)) /\ Free /\ RouterObserved
    \/ (DebounceFire) /\ Free /\ RouterObserved

RouterSpec == RouterInit /\ [][RouterNext]_vars

\* Failing calls: both domains blocklisted and authorised, a global pause, a
\* pause of the first domain and a pending grant of the second may be running;
\* the pause and resume commands and markGranted arrive, and a storage write or
\* the rule update of a handler may be rejected.
FaultInit ==
    /\ \E until \in {0, MINUTE_MS}, D \in SUBSET {DomainOrder[1]}, P \in SUBSET {DomainOrder[2]} :
         Settled(Domains, Domains, P, until, [d \in D |-> MINUTE_MS])
    /\ quota = MaxEvents

FaultObserved == hist' = [NoHist EXCEPT !.before = ObsBefore]

FaultNext ==
    \/ (\E m \in 1..MaxMinutes : CmdPauseForMinutes(m)) /\ Spend /\ FaultObserved
    \/ (CmdResumeNow) /\ Spend /\ FaultObserved
    \/ (\E d \in Domains, m \in 1..MaxMinutes : CmdPauseDomain(d, m)) /\ Spend /\ FaultObserved
    \/ (\E d \in Domains : CmdResumeDomain(d)) /\ Spend /\ FaultObserved
    \/ (\E d \in Domains : CmdMarkGranted(d)) /\ Spend /\ FaultObserved
    \/ (\E t \in tasks : FailUpdate(t)) /\ Spend /\ FaultObserved
    \/ (\E t \in tasks : FailSet(t)) /\ Spend /\ FaultObserved
    \/ (\E t \in tasks : GetState(t)) /\ Free /\ FaultObserved
    \/ (\E t \in tasks : GetPending(t)) /\ Free /\ FaultObserved
    \/ (\E t \in tasks : Oracle(t)) /\ Free /\ FaultObserved
    \/ (\E t \in tasks : GetRules(t)) /\ Free /\ FaultObserved
    \/ (\E t \in tasks : UpdateRules(t)) /\ Free /\ FaultObserved
    \/ (\E t \in tasks : GpSet(t)) /\ Free /\ FaultObserved
    \/ (\E t \in tasks : ClrSet(t)) /\ Free /\ FaultObserved
    \/ (\E t \in tasks : PdGet(t)) /\ Free /\ FaultObserved
    \/ (\E t \in tasks : PdSet(t)) /\ Free /\ FaultObserved
    \/ (\E t \in tasks : PgGet(t)) /\ Free /\ FaultObserved
    \/ (\E t \in tasks : PgSet(t)) /\ Free /\ FaultObserved
    \/ (\E t \in tasks : GetAllAlarms(t)) /\ Free /\ FaultObserved
    \/ (\E c \in changes : OnChanged(c)) /\ Free /\ FaultObserved
    \/ (DebounceFire) /\ Free /\ FaultObserved

FaultSpec == FaultInit /\ [][FaultNext]_vars

\* The debouncer on a clock of half windows: the first domain is blocklisted
\* and both are authorised; markPending commands and a popup that adds or
\* removes the second domain write storage, the listener takes the
\* notifications, and the timeout runs its callback no earlier than its
\* deadline.
DebounceInit == Settled({DomainOrder[1]}, Domains, {}, 0, EmptyMap) /\ quota = MaxEvents

DebounceObserved(fired) == hist' = [NoHist EXCEPT !.deb = ObsDeb(fired)]

DebounceNext ==
    \/ (\E d \in Domains : CmdMarkPending(d)) /\ Spend /\ DebounceObserved(FALSE)
    \/ (\E S \in {{DomainOrder[1]}, Domains} : UiSetBlocked(S)) /\ Spend /\ DebounceObserved(FALSE)
    \/ (Tick(DEBOUNCE_MS \div 2) /\ now < MaxWindows * DEBOUNCE_MS) /\ Free /\ DebounceObserved(FALSE)
    \/ (DebounceFire /\ hist.deb.due <= now) /\ Free /\ DebounceObserved(TRUE)
    \/ (\E c \in changes : OnChanged(c)) /\ Free /\ DebounceObserved(FALSE)
    \/ (\E t \in tasks : PgGet(t)) /\ Free /\ DebounceObserved(FALSE)
    \/ (\E t \in tasks : PgSet(t)) /\ Free /\ DebounceObserved(FALSE)
    \/ (\E t \in tasks : GetState(t)) /\ Free /\ DebounceObserved(FALSE)
    \/ (\E t \in tasks : GetPending(t)) /\ Free /\ DebounceObserved(FALSE)
    \/ (\E t \in tasks : Oracle(t)) /\ Free /\ DebounceObserved(FALSE)
    \/ (\E t \in tasks : GetRules(t)) /\ Free /\ DebounceObserved(FALSE)
    \/ (\E t \in tasks : UpdateRules(t)) /\ Free /\ DebounceObserved(FALSE)

DebounceSpec == DebounceInit /\ [][DebounceNext]_vars

\* Resuming everything: both domains blocklisted and authorised, a global
\* pause and a pause of the first domain may be running with their alarms
\* armed; pause and resume commands arrive in any order.
ResumeInit ==
    /\ \E until \in {0, MINUTE_MS}, P \in SUBSET {DomainOrder[1]} :
         Settled(Domains, Domains, {}, until, [d \in P |-> MINUTE_MS])
    /\ quota = MaxEvents

ResumeObserved == hist' = [NoHist EXCEPT !.lastCmd = ObsLastCmd, !.resumed = ObsResumed]

ResumeNext ==
    \/ (\E m \in 1..MaxMinutes : CmdPauseForMinutes(m)) /\ Spend /\ ResumeObserved
    \/ (\E d \in Domains, m \in 1..MaxMinutes : CmdPauseDomain(d, m)) /\ Spend /\ ResumeObserved
    \/ (CmdResumeNow) /\ Spend /\ ResumeObserved
    \/ (\E d \in Domains : CmdResumeDomain(d)) /\ Spend /\ ResumeObserved
    \/ (\E t \in tasks : GetState(t)) /\ Free /\ ResumeObserved
    \/ (\E t \in tasks : GetPending(t)) /\ Free /\ ResumeObserved
    \/ (\E t \in tasks : Oracle(t)) /\ Free /\ ResumeObserved
    \/ (\E t \in tasks : GetRules(t)) /\ Free /\ ResumeObserved
    \/ (\E t \in tasks : UpdateRules(t)) /\ Free /\ ResumeObserved
    \/ (\E t \in tasks : GpSet(t)) /\ Free /\ ResumeObserved
    \/ (\E t \in tasks : ClrSet(t)) /\ Free /\ ResumeObserved
    \/ (\E t \in tasks : PdGet(t)) /\ Free /\ ResumeObserved
    \/ (\E t \in tasks : PdSet(t)) /\ Free /\ ResumeObserved
    \/ (\E t \in tasks : GetAllAlarms(t)) /\ Free /\ ResumeObserved
    \/ (\E c \in changes : OnChanged(c)) /\ Free /\ ResumeObserved
    \/ (DebounceFire) /\ Free /\ ResumeObserved

ResumeSpec == ResumeInit /\ [][ResumeNext]_vars

\* Adding a domain that is then denied: the first domain is blocklisted and
\* authorised, the popup adds the second and the user denies the request; the
\* first domain's permission may be revoked meanwhile.
NewDomain == DomainOrder[2]

AddInit == Settled({DomainOrder[1]}, {DomainOrder[1]}, {}, 0, EmptyMap) /\ quota = MaxEvents

AddObserved(step) == hist' = [NoHist EXCEPT !.flow = ObsFlow(step)]

AddNext ==
    \/ (hist.flow.pc = "idle" /\ FlowStart(NewDomain)) /\ Free /\ AddObserved("start")
    \/ (hist.flow.pc = "add" /\ FlowAdd(hist.flow.original, NewDomain)) /\ Free /\ AddObserved("add")
    \/ (hist.flow.pc = "ask" /\ FlowRestore(hist.flow.original)) /\ Free /\ AddObserved("restore")
    \/ (hist.flow.pc = "grant" /\ FlowGranted(NewDomain)) /\ Free /\ AddObserved("grant")
    \/ (RevokeOrigins(DomainOrder[1])) /\ Spend /\ AddObserved("")
    \/ (\E t \in tasks : GetState(t)) /\ Free /\ AddObserved("")
    \/ (\E t \in tasks : GetPending(t)) /\ Free /\ AddObserved("")
    \/ (\E t \in tasks : Oracle(t)) /\ Free /\ AddObserved("")
    \/ (\E t \in tasks : SetBlocked(t)) /\ Free /\ AddObserved("")
    \/ (\E t \in tasks : GetRules(t)) /\ Free /\ AddObserved("")
    \/ (\E t \in tasks : UpdateRules(t)) /\ Free /\ AddObserved("")
    \/ (\E t \in tasks : PgGet(t)) /\ Free /\ AddObserved("")
    \/ (\E t \in tasks : PgSet(t)) /\ Free /\ AddObserved("")
    \/ (\E c \in changes : OnChanged(c)) /\ Free /\ AddObserved("")
    \/ (DebounceFire) /\ Free /\ AddObserved("")

AddSpec == AddInit /\ [][AddNext]_vars

\* The swap of the rule set: the reserved range with the rules of other
\* subsystems around it, as in RangeInit; reconcile requests, permission
\* changes, blocklist edits and pauses arrive, and the browser may reject an
\* update.
SwapInit ==
    /\ \E G \in SUBSET Domains, B \in SUBSET Domains :
         /\ B \subseteq G
         /\ blockedDomains = SortedSeq(B)
         /\ perms = UNION {OriginsOf(d) : d \in G}
         /\ rules = Compiled(B, 0, EmptyMap) \cup Others
    /\ pausedUntilTs = 0
    /\ pausedDomains = EmptyMap
    /\ pendingGrants = EmptyMap
    /\ alarms = EmptyMap
    /\ now = 0
    /\ syncing = FALSE
    /\ needsResync = FALSE
    /\ debounceTimer = FALSE
    /\ changes = {}
    /\ tasks = {}
    /\ ev = NoEv
    /\ hist = [NoHist EXCEPT !.was = rules]
    /\ quota = MaxEvents

SwapObserved(applied) ==
    hist' = [NoHist EXCEPT !.prev = ObsPrev, !.was = rules, !.swapped = applied]

SwapNext ==
    \/ (CmdSyncRules) /\ Spend /\ SwapObserved(FALSE)
    \/ (\E m \in 1..MaxMinutes : CmdPauseForMinutes(m)) /\ Spend /\ SwapObserved(FALSE)
    \/ (\E d \in Domains, m \in 1..MaxMinutes : CmdPauseDomain(d, m)) /\ Spend /\ SwapObserved(FALSE)
    \/ (\E d \in Domains : GrantOrigins(d)) /\ Spend /\ SwapObserved(FALSE)
    \/ (\E d \in Domains : RevokeOrigins(d)) /\ Spend /\ SwapObserved(FALSE)
    \/ (\E S \in SUBSET Domains : UiSetBlocked(S)) /\ Spend /\ SwapObserved(FALSE)
    \/ (\E t \in tasks : FailUpdate(t)) /\ Spend /\ SwapObserved(FALSE)
    \/ (\E t \in tasks : GetState(t)) /\ Free /\ SwapObserved(FALSE)
    \/ (\E t \in tasks : GetPending(t)) /\ Free /\ SwapObserved(FALSE)
    \/ (\E t \in tasks : Oracle(t)) /\ Free /\ SwapObserved(FALSE)
    \/ (\E t \in tasks : SetBlocked(t)) /\ Free /\ SwapObserved(FALSE)
    \/ (\E t \in tasks : GetRules(t)) /\ Free /\ SwapObserved(FALSE)
    \/ (\E t \in tasks : UpdateRules(t) /\ SwapObserved(~UpdateFails(rules, t.ourIds, t.desired))) /\ Free
    \/ (\E t \in tasks : GpSet(t)) /\ Free /\ SwapObserved(FALSE)
    \/ (\E t \in tasks : PdGet(t)) /\ Free /\ SwapObserved(FALSE)
    \/ (\E t \in tasks : PdSet(t)) /\ Free /\ SwapObserved(FALSE)
    \/ (\E t \in tasks : PgGet(t)) /\ Free /\ SwapObserved(FALSE)
    \/ (\E t \in tasks : PgSet(t)) /\ Free /\ SwapObserved(FALSE)
    \/ (\E c \in changes : OnChanged(c)) /\ Free /\ SwapObserved(FALSE)
    \/ (DebounceFire) /\ Free /\ SwapObserved(FALSE)

SwapSpec == SwapInit /\ [][SwapNext]_vars

\* reconcileDomains as a function of what it reads: the blocklist of the
\* snapshot, the pending grants (absent, expiring at the time of the pass or
\* later) and the permissions held when each domain is queried, which grants,
\* revocations and markPending commands change while the pass is in flight.
ReconInit ==
    /\ \E B \in SUBSET Domains, G \in SUBSET Domains :
         /\ blockedDomains = SortedSeq(B)
         /\ perms = UNION {OriginsOf(d) : d \in G}
         /\ rules = Compiled(B, 0, EmptyMap)
    /\ \E P \in SUBSET Domains :
         pendingGrants \in [P -> {PENDING_MS, 2 * PENDING_MS}]
    /\ now = PENDING_MS
    /\ pausedUntilTs = 0
    /\ pausedDomains = EmptyMap
    /\ alarms = EmptyMap
    /\ syncing = FALSE
    /\ needsResync = FALSE
    /\ debounceTimer = FALSE
    /\ changes = {}
    /\ tasks = {}
    /\ ev = NoEv
    /\ hist = NoHist
    /\ quota = MaxEvents

\* what the pass in flight has read: the pending grants, and the answer of
\* the permission API for every domain it asked about
ReconObserved(pend, asked) ==
    hist' = [NoHist EXCEPT !.pend = IF ev'.passStart THEN EmptyMap ELSE pend,
                           !.asked = IF ev'.passStart THEN {} ELSE asked,
                           !.wrote = ObsWrote]

\* some pattern that covers the domain is held
Holds(held, d) == held \cap ({AllSites} \cup OriginsOf(d)) # {}

ReconSame == ReconObserved(hist.pend, hist.asked)

ReconNext ==
    \/ (CmdSyncRules) /\ Spend /\ ReconSame
    \/ (\E d \in Domains : CmdMarkPending(d)) /\ Spend /\ ReconSame
    \/ (\E d \in Domains : GrantOrigins(d)) /\ Spend /\ ReconSame
    \/ (\E d \in Domains : RevokeOrigins(d)) /\ Spend /\ ReconSame
    \/ (\E t \in tasks : GetState(t)) /\ Free /\ ReconSame
    \/ (\E t \in tasks : GetPending(t)) /\ Free /\ ReconObserved(pendingGrants, hist.asked)
    \/ (\E t \in tasks : Oracle(t) /\ ReconObserved(hist.pend,
            hist.asked \cup {<<t.sBlocked[t.i], Holds(perms, t.sBlocked[t.i])>>})) /\ Free
    \/ (\E t \in tasks : SetPending(t)) /\ Free /\ ReconSame
    \/ (\E t \in tasks : SetBlocked(t)) /\ Free /\ ReconSame
    \/ (\E t \in tasks : GetRules(t)) /\ Free /\ ReconSame
    \/ (\E t \in tasks : UpdateRules(t)) /\ Free /\ ReconSame
    \/ (\E t \in tasks : PgGet(t)) /\ Free /\ ReconSame
    \/ (\E t \in tasks : PgSet(t)) /\ Free /\ ReconSame
    \/ (\E c \in changes : OnChanged(c)) /\ Free /\ ReconSame
    \/ (DebounceFire) /\ Free /\ ReconSame

ReconSpec == ReconInit /\ [][ReconNext]_vars

\* hasHostAccess query by query: at most one of the five patterns that cover
\* the first domain is held at the start, single patterns are granted and
\* revoked between the queries, and any query may throw.
Patterns == {AllSites} \cup OriginsOf(DomainOrder[1])

ProbeInit ==
    /\ blockedDomains = DomainOrder
    /\ perms \in {{}} \cup {{q} : q \in Patterns}
    /\ rules = {}
    /\ pendingGrants = EmptyMap
    /\ now = 0
    /\ pausedUntilTs = 0
    /\ pausedDomains = EmptyMap
    /\ alarms = EmptyMap
    /\ syncing = FALSE
    /\ needsResync = FALSE
    /\ debounceTimer = FALSE
    /\ changes = {}
    /\ tasks = {}
    /\ ev = NoEv
    /\ hist = NoHist
    /\ quota = MaxEvents

\* the queries of the hasHostAccess call in progress, with their outcomes, and
\* the answer of the call once it has ended
ObsProbe(t, throws) ==
    LET d == t.sBlocked[t.i]
        q == Checks(d)[t.j + 1]
        out == IF throws THEN "threw" ELSE IF q \in perms THEN "held" ELSE "absent"
        before == IF t.j = 0 THEN <<>> ELSE hist.probe.queried
    IN [d |-> d, queried |-> Append(before, [q |-> q, out |-> out]),
        answer |-> IF \E u \in tasks' : u.pc = "oracle" /\ u.i = t.i THEN ""
                   ELSE IF \E u \in tasks' : d \in SeqToSet(u.allowed)
                        THEN "true" ELSE "false"]

ProbeObserved(probe) == hist' = [NoHist EXCEPT !.probe = probe]
ProbeSame == ProbeObserved(hist.probe)

ProbeNext ==
    \/ (CmdSyncRules) /\ Spend /\ ProbeSame
    \/ (\E q \in Patterns : PermissionsChanged(perms \cup {q})) /\ Spend /\ ProbeSame
    \/ (\E q \in Patterns : PermissionsChanged(perms \ {q})) /\ Spend /\ ProbeSame
    \/ (\E t \in tasks : GetState(t)) /\ Free /\ ProbeSame
    \/ (\E t \in tasks : GetPending(t)) /\ Free /\ ProbeSame
    \/ (\E t \in tasks, throws \in BOOLEAN :
            Query(t, throws) /\ ProbeObserved(ObsProbe(t, throws))) /\ Free
    \/ (\E t \in tasks : SetBlocked(t)) /\ Free /\ ProbeSame
    \/ (\E t \in tasks : GetRules(t)) /\ Free /\ ProbeSame
    \/ (\E t \in tasks : UpdateRules(t)) /\ Free /\ ProbeSame
    \/ (\E c \in changes : OnChanged(c)) /\ Free /\ ProbeSame
    \/ (DebounceFire) /\ Free /\ ProbeSame

ProbeSpec == ProbeInit /\ [][ProbeNext]_vars

\* The end of a grace window: the first domain has just been added to the
\* blocklist with no permission held, as in GraceInit; the clock advances and
\* markPending, markGranted and syncRules commands may arrive.  Every
\* suspended handler is resumed eventually, every change notification is
\* delivered and a debounce timer that is set fires.
ExpiryObserved == hist' = NoHist

ExpiryResume ==
    \/ (\E t \in tasks : GetState(t)) /\ Free /\ ExpiryObserved
    \/ (\E t \in tasks : GetPending(t)) /\ Free /\ ExpiryObserved
    \/ (\E t \in tasks : Oracle(t)) /\ Free /\ ExpiryObserved
    \/ (\E t \in tasks : SetPending(t)) /\ Free /\ ExpiryObserved
    \/ (\E t \in tasks : SetBlocked(t)) /\ Free /\ ExpiryObserved
    \/ (\E t \in tasks : GetRules(t)) /\ Free /\ ExpiryObserved
    \/ (\E t \in tasks : UpdateRules(t)) /\ Free /\ ExpiryObserved
    \/ (\E t \in tasks : PgGet(t)) /\ Free /\ ExpiryObserved
    \/ (\E t \in tasks : PgSet(t)) /\ Free /\ ExpiryObserved
    \/ (\E c \in changes : OnChanged(c)) /\ Free /\ ExpiryObserved
    \/ (DebounceFire) /\ Free /\ ExpiryObserved

ExpiryNext ==
    \/ (CmdSyncRules) /\ Spend /\ ExpiryObserved
    \/ (\E d \in Domains : CmdMarkPending(d)) /\ Spend /\ ExpiryObserved
    \/ (\E d \in Domains : CmdMarkGranted(d)) /\ Spend /\ ExpiryObserved
    \/ (Tick(PENDING_MS)) /\ Spend /\ ExpiryObserved
    \/ ExpiryResume

ExpirySpec == GraceInit /\ [][ExpiryNext]_vars /\ WF_vars(ExpiryResume)

\* Recovery of the coordinator: both domains are blocklisted, the first is
\* authorised and the pending grant of the second has just expired, so a pass
\* goes through every call it can make; reconcile requests and revocations
\* arrive, and one call of a pass is rejected.
RecoverInit ==
    /\ blockedDomains = DomainOrder
    /\ perms = OriginsOf(DomainOrder[1])
    /\ pendingGrants = (DomainOrder[2] :> PENDING_MS)
    /\ now = PENDING_MS
    /\ rules = Compiled(Domains, 0, EmptyMap)
    /\ pausedUntilTs = 0
    /\ pausedDomains = EmptyMap
    /\ alarms = EmptyMap
    /\ syncing = FALSE
    /\ needsResync = FALSE
    /\ debounceTimer = FALSE
    /\ changes = {}
    /\ tasks = {}
    /\ ev = NoEv
    /\ hist = NoHist
    /\ quota = MaxEvents

RecoverObserved(req) ==
    hist' = [NoHist EXCEPT !.need = needsResync, !.busy = syncing, !.req = req,
                           !.failedOnce = hist.failedOnce \/ ev'.failed,
                           !.trailed = hist.trailed \/ (ev'.failed /\ ev'.passStart)]

RecoverNext ==
    \/ (CmdSyncRules) /\ Spend /\ RecoverObserved(TRUE)
    \/ (\E d \in Domains : RevokeOrigins(d)) /\ Spend /\ RecoverObserved(TRUE)
    \/ (\E t \in tasks : FailStep(t)) /\ ~hist.failedOnce /\ Free /\ RecoverObserved(FALSE)
    \/ (\E t \in tasks : FailUpdate(t)) /\ ~hist.failedOnce /\ Free /\ RecoverObserved(FALSE)
    \/ (\E t \in tasks : GetState(t)) /\ Free /\ RecoverObserved(FALSE)
    \/ (\E t \in tasks : GetPending(t)) /\ Free /\ RecoverObserved(FALSE)
    \/ (\E t \in tasks : Oracle(t)) /\ Free /\ RecoverObserved(FALSE)
    \/ (\E t \in tasks : SetPending(t)) /\ Free /\ RecoverObserved(FALSE)
    \/ (\E t \in tasks : SetBlocked(t)) /\ Free /\ RecoverObserved(FALSE)
    \/ (\E t \in tasks : GetRules(t)) /\ Free /\ RecoverObserved(FALSE)
    \/ (\E t \in tasks : UpdateRules(t)) /\ Free /\ RecoverObserved(FALSE)
    \/ (\E c \in changes : OnChanged(c)) /\ Free /\ RecoverObserved(FALSE)
    \/ (DebounceFire) /\ Free /\ RecoverObserved(TRUE)

RecoverSpec == RecoverInit /\ [][RecoverNext]_vars

\* The rewrite of the blocklist: any settled blocklist of authorised domains;
\* permissions are granted and revoked, the popup writes the blocklist and
\* reconcile requests arrive while passes are in flight.
RewriteInit ==
    /\ \E G \in SUBSET Domains, B \in SUBSET Domains :
         B \subseteq G /\ Settled(B, G, {}, 0, EmptyMap)
    /\ quota = MaxEvents

\* the clock stands still in this specification, so every domain a UI write
\* has added is within the 15 seconds after its addition
ObsNewly == (hist.newly \cup UiAdd) \ UiRemove

RewriteObserved ==
    hist' = [NoHist EXCEPT !.dropped = Dropped, !.uiAdded = ObsUiAdded,
                           !.newly = ObsNewly]

RewriteNext ==
    \/ (CmdSyncRules) /\ Spend /\ RewriteObserved
    \/ (\E d \in Domains : GrantOrigins(d)) /\ Spend /\ RewriteObserved
    \/ (\E d \in Domains : RevokeOrigins(d)) /\ Spend /\ RewriteObserved
    \/ (\E S \in SUBSET Domains : UiSetBlocked(S)) /\ Spend /\ RewriteObserved
    \/ (\E t \in tasks : GetState(t)) /\ Free /\ RewriteObserved
    \/ (\E t \in tasks : GetPending(t)) /\ Free /\ RewriteObserved
    \/ (\E t \in tasks : Oracle(t)) /\ Free /\ RewriteObserved
    \/ (\E t \in tasks : SetBlocked(t)) /\ Free /\ RewriteObserved
    \/ (\E t \in tasks : GetRules(t)) /\ Free /\ RewriteObserved
    \/ (\E t \in tasks : UpdateRules(t)) /\ Free /\ RewriteObserved
    \/ (\E t \in tasks : PgGet(t)) /\ Free /\ RewriteObserved
    \/ (\E t \in tasks : PgSet(t)) /\ Free /\ RewriteObserved
    \/ (\E c \in changes : OnChanged(c)) /\ Free /\ RewriteObserved
    \/ (DebounceFire) /\ Free /\ RewriteObserved

RewriteSpec == RewriteInit /\ [][RewriteNext]_vars

\* Per-domain pauses side by side: both domains are blocklisted and
\* authorised, the first may be paused; pauseDomain and resumeDomain commands
\* arrive, at most one for each domain, and their handlers interleave at
\* every await.  The clock stands still, so no pause expires.
PauseInit ==
    /\ \E P \in SUBSET {DomainOrder[1]} :
         /\ pausedDomains = [d \in P |-> MaxTicks * MINUTE_MS]
         /\ rules = Compiled(Domains, 0, pausedDomains)
         /\ alarms = Restored(EmptyMap, 0, pausedDomains, 0)
         /\ hist = [NoHist EXCEPT !.expect = pausedDomains]
    /\ blockedDomains = DomainOrder
    /\ perms = UNION {OriginsOf(d) : d \in Domains}
    /\ pausedUntilTs = 0
    /\ pendingGrants = EmptyMap
    /\ now = 0
    /\ syncing = FALSE
    /\ needsResync = FALSE
    /\ debounceTimer = FALSE
    /\ changes = {}
    /\ tasks = {}
    /\ ev = NoEv
    /\ quota = MaxEvents

PauseObserved(expect, on) == hist' = [NoHist EXCEPT !.expect = expect, !.on = on]
PauseSame == PauseObserved(hist.expect, hist.on)

PauseNext ==
    \/ (\E d \in Domains \ hist.on, m \in 1..MaxMinutes :
            CmdPauseDomain(d, m)
            /\ PauseObserved(Put(hist.expect, d, now + m * MINUTE_MS), hist.on \cup {d})) /\ Spend
    \/ (\E d \in Domains \ hist.on :
            CmdResumeDomain(d)
            /\ PauseObserved(Del(hist.expect, d), hist.on \cup {d})) /\ Spend
    \/ (\E t \in tasks : PdGet(t)) /\ Free /\ PauseSame
    \/ (\E t \in tasks : PdSet(t)) /\ Free /\ PauseSame
    \/ (\E t \in tasks : GetState(t)) /\ Free /\ PauseSame
    \/ (\E t \in tasks : GetPending(t)) /\ Free /\ PauseSame
    \/ (\E t \in tasks : Oracle(t)) /\ Free /\ PauseSame
    \/ (\E t \in tasks : GetRules(t)) /\ Free /\ PauseSame
    \/ (\E t \in tasks : UpdateRules(t)) /\ Free /\ PauseSame
    \/ (\E c \in changes : OnChanged(c)) /\ Free /\ PauseSame
    \/ (DebounceFire) /\ Free /\ PauseSame

PauseSpec == PauseInit /\ [][PauseNext]_vars

\* A global pause of one minute and per-domain pauses of two minutes, all set
\* at time 0 with their alarms armed; the clock advances and the alarms fire.
TimerInit ==
    /\ \E P \in (SUBSET Domains) \ {{}} :
         /\ pausedDomains = [d \in P |-> 2 * MINUTE_MS]
         /\ alarms = Restored(EmptyMap, MINUTE_MS, pausedDomains, 0)
    /\ blockedDomains = DomainOrder
    /\ perms = UNION {OriginsOf(d) : d \in Domains}
    /\ pausedUntilTs = MINUTE_MS
    /\ pendingGrants = EmptyMap
    /\ rules = {}
    /\ now = 0
    /\ syncing = FALSE
    /\ needsResync = FALSE
    /\ debounceTimer = FALSE
    /\ changes = {}
    /\ tasks = {}
    /\ ev = NoEv
    /\ hist = NoHist
    /\ quota = MaxEvents + 1

TimerObserved(outlive) == hist' = [NoHist EXCEPT !.outlive = outlive]
TimerSame == TimerObserved(hist.outlive)

\* the per-domain pauses that are persisted with an expiry still in the future
Running == [d \in {x \in DOMAIN pausedDomains : pausedDomains[x] > now} |-> pausedDomains[d]]

TimerNext ==
    \/ (Tick(MINUTE_MS)) /\ Spend /\ TimerSame
    \/ (CmdSyncRules) /\ Spend /\ TimerSame
    \/ (OnAlarm(GlobalAlarm)) /\ Free /\ TimerObserved(Running)
    \/ (\E d \in Domains : OnAlarm(DomainAlarm(d))) /\ Free /\ TimerSame
    \/ (\E t \in tasks : GpSet(t)) /\ Free /\ TimerSame
    \/ (\E t \in tasks : ClrSet(t)) /\ Free /\ TimerSame
    \/ (\E t \in tasks : PdGet(t)) /\ Free /\ TimerSame
    \/ (\E t \in tasks : PdSet(t)) /\ Free /\ TimerSame
    \/ (\E t \in tasks : GetAllAlarms(t)) /\ Free /\ TimerSame
    \/ (\E t \in tasks : GetState(t)) /\ Free /\ TimerSame
    \/ (\E t \in tasks : GetPending(t)) /\ Free /\ TimerSame
    \/ (\E t \in tasks : Oracle(t)) /\ Free /\ TimerSame
    \/ (\E t \in tasks : GetRules(t)) /\ Free /\ TimerSame
    \/ (\E t \in tasks : UpdateRules(t)) /\ Free /\ TimerSame

TimerSpec == TimerInit /\ [][TimerNext]_vars

\* The feedback chain of the reconciler: a pass writes blockedDomains or
\* pendingGrants, the change notification arms the debounce timer and the
\* timer starts another pass.  Both domains are blocklisted, each with its
\* origins granted or with a pending grant that expires after 15 seconds.
\* Every suspended handler is resumed eventually, every change notification
\* is delivered and an armed debounce timer fires.
ChainInit ==
    /\ \E G \in SUBSET Domains : Settled(Domains, G, Domains \ G, 0, EmptyMap)
    /\ quota = MaxEvents

ObsChain ==
    IF ev'.wrote # "" THEN 1
    ELSE IF hist.chain = 1 /\ debounceTimer /\ ~debounceTimer' THEN 2
    ELSE hist.chain

ChainObserved == hist' = [NoHist EXCEPT !.chain = ObsChain]

ChainResume ==
    \/ (\E t \in tasks : GetState(t)) /\ Free /\ ChainObserved
    \/ (\E t \in tasks : GetPending(t)) /\ Free /\ ChainObserved
    \/ (\E t \in tasks : Oracle(t)) /\ Free /\ ChainObserved
    \/ (\E t \in tasks : SetPending(t)) /\ Free /\ ChainObserved
    \/ (\E t \in tasks : SetBlocked(t)) /\ Free /\ ChainObserved
    \/ (\E t \in tasks : GetRules(t)) /\ Free /\ ChainObserved
    \/ (\E t \in tasks : UpdateRules(t)) /\ Free /\ ChainObserved
    \/ (\E t \in tasks : PgGet(t)) /\ Free /\ ChainObserved
    \/ (\E t \in tasks : PgSet(t)) /\ Free /\ ChainObserved
    \/ (\E c \in changes : OnChanged(c)) /\ Free /\ ChainObserved
    \/ (DebounceFire) /\ Free /\ ChainObserved

ChainNext ==
    \/ (CmdSyncRules) /\ Spend /\ ChainObserved
    \/ (\E d \in Domains : RevokeOrigins(d)) /\ Spend /\ ChainObserved
    \/ (\E S \in SUBSET Domains : UiSetBlocked(S)) /\ Spend /\ ChainObserved
    \/ (Tick(PENDING_MS)) /\ Spend /\ ChainObserved
    \/ ChainResume

ChainSpec == ChainInit /\ [][ChainNext]_vars /\ WF_vars(ChainResume)

\* The commands that reconcile before they are answered: syncRules,
\* pauseForMinutes, pauseDomain, resumeDomain and markGranted, sent while the
\* handler of an earlier command or a debounced pass may be in flight.  Both
\* domains are blocklisted and authorised.
AnswerInit == Settled(Domains, Domains, {}, 0, EmptyMap) /\ quota = MaxEvents

AnswerObserved == hist' = NoHist

AnswerNext ==
    \/ (CmdSyncRules) /\ Spend /\ AnswerObserved
    \/ (\E m \in 1..MaxMinutes : CmdPauseForMinutes(m)) /\ Spend /\ AnswerObserved
    \/ (\E d \in Domains, m \in 1..MaxMinutes : CmdPauseDomain(d, m)) /\ Spend /\ AnswerObserved
    \/ (\E d \in Domains : CmdResumeDomain(d)) /\ Spend /\ AnswerObserved
    \/ (\E d \in Domains : CmdMarkGranted(d)) /\ Spend /\ AnswerObserved
    \/ (\E t \in tasks : GpSet(t)) /\ Free /\ AnswerObserved
    \/ (\E t \in tasks : PdGet(t)) /\ Free /\ AnswerObserved
    \/ (\E t \in tasks : PdSet(t)) /\ Free /\ AnswerObserved
    \/ (\E t \in tasks : PgGet(t)) /\ Free /\ AnswerObserved
    \/ (\E t \in tasks : PgSet(t)) /\ Free /\ AnswerObserved
    \/ (\E t \in tasks : GetState(t)) /\ Free /\ AnswerObserved
    \/ (\E t \in tasks : GetPending(t)) /\ Free /\ AnswerObserved
    \/ (\E t \in tasks : Oracle(t)) /\ Free /\ AnswerObserved
    \/ (\E t \in tasks : GetRules(t)) /\ Free /\ AnswerObserved
    \/ (\E t \in tasks : UpdateRules(t)) /\ Free /\ AnswerObserved
    \/ (\E c \in changes : OnChanged(c)) /\ Free /\ AnswerObserved
    \/ (DebounceFire) /\ Free /\ AnswerObserved

AnswerSpec == AnswerInit /\ [][AnswerNext]_vars

\* ================================================================ claims

\* C1: at most one reconciliation pass is in flight at any time, whatever the
\* interleaving of commands, change notifications, debounce firings, permission
\* events, startup and alarm callbacks.
C1_AtMostOnePass == Cardinality(InFlight) <= 1

\* a reconcile request found a pass in flight and was turned away
C1_Witness == ev.early /\ Cardinality(InFlight) = 1 /\ needsResync

\* C2: when a pass ends after N >= 1 requests arrived during it, exactly one
\* trailing pass starts, in the step that ends the first, and no further resync
\* is owed; with no such request no pass follows.
C2_OneTrailingPass ==
    ev.passEnd =>
        IF ev.h.coalesced >= 1
        THEN /\ ev.passStart
             /\ Cardinality(InFlight) = 1
             /\ \A t \in InFlight : t.pc = "getState"
             /\ syncing /\ ~needsResync
        ELSE /\ ~ev.passStart
             /\ InFlight = {}
             /\ ~syncing /\ ~needsResync

\* two requests arrived during one pass and one trailing pass has started
C2_Witness == ev.passEnd /\ ev.h.coalesced = 2 /\ ev.passStart /\ Cardinality(InFlight) = 1

\* C4 as stated: once a syncRules command has been answered, no installed rule
\* matches a domain that has had neither host access nor an unexpired pending
\* grant since the pass in flight when it was answered, or the last pass it
\* ran, started.
C4_AfterCommand ==
    ev.resp = "syncRules" =>
        \A d \in (IF ev.early THEN hist.unauth ELSE ev.h.unauth) : ~HasRule(d)

\* C4, amended: a pass whose calls all return leaves no rule for a domain that
\* had neither host access nor a pending grant unexpired at the pass's reading
\* of the clock while it ran, and a syncRules command that finds no pass in
\* flight is answered only when the pass it started (and any trailing pass) has
\* ended.
C4_AfterPass ==
    /\ ev.passEnd /\ ~ev.failed => \A d \in ev.h.unauth : ~HasRule(d)
    /\ ev.resp = "syncRules" /\ ~ev.early => ev.passEnd

\* a syncRules command is answered after its own pass; an unauthorised domain
\* that had a rule before has none now
C4_Witness ==
    /\ ev.resp = "syncRules" /\ ev.passEnd
    /\ \E d \in ev.h.unauth : \E r \in ev.h.prev : r.domain = d

\* C5: a pass removes from the persisted blocklist every domain that had neither
\* host access nor a live pending grant while it ran (unless a UI write added
\* it meanwhile), and a domain so removed stays out until a UI write adds it.
C5_Revoked ==
    /\ ev.passEnd => \A d \in ev.h.unauth \ ev.h.uiAdded : d \notin SeqToSet(blockedDomains)
    /\ hist.removed \cap SeqToSet(blockedDomains) = {}

\* a pass has ended that dropped a domain whose origins are no longer granted
C5_Witness ==
    /\ ev.passEnd
    /\ \E d \in ev.h.unauth \cap hist.removed : \E r \in ev.h.prev : r.domain = d

\* C9: a pass that starts after another with no change from outside since that
\* one started installs the rules that were installed and writes neither
\* blockedDomains nor pendingGrants.
C9_Idempotent == ev.passEnd /\ ev.h.calm = 2 => rules = ev.h.prev /\ ~ev.h.wrote

\* the second of two such passes has ended, after the first had dropped a domain
C9_Witness ==
    /\ ev.passEnd /\ ev.h.calm = 2
    /\ rules # {} /\ hist.removed # {}

\* C6: a pass that read a pausedUntilTs still in the future leaves no rule of
\* the reserved range installed, whatever pausedDomains holds and whichever
\* domains are authorised.
C6_GlobalPauseWins == ev.passEnd /\ ev.sawPause => {r \in rules : InRange(r.id)} = {}

\* such a pass has ended with both domains blocklisted and authorised and only
\* one of them paused on its own
C6_Witness ==
    /\ ev.passEnd /\ ev.sawPause
    /\ SeqToSet(blockedDomains) = Domains
    /\ NoAccess(perms) = {}
    /\ DOMAIN pausedDomains = {DomainOrder[1]}
    /\ pausedDomains[DomainOrder[1]] > now

\* C10: when the startup handler completes, every pause that has been persisted
\* unchanged since the restart and has not expired has an alarm for its scope
\* at exactly the persisted expiry.
C10_Rearmed ==
    ev.done = "onStartup" =>
        LET p == Pauses(pausedUntilTs, pausedDomains) IN
        \A a \in hist.boot : p[a] > now => a \in DOMAIN alarms /\ alarms[a] = p[a]

\* the restart lost the armed alarms while a global and a per-domain pause were
\* running, and the startup handler has completed before either expired
C10_Witness ==
    /\ ev.done = "onStartup" /\ hist.bootLost
    /\ GlobalAlarm \in hist.boot /\ pausedUntilTs > now
    /\ \E d \in DOMAIN pausedDomains : DomainAlarm(d) \in hist.boot /\ pausedDomains[d] > now

\* C7: a pass that runs inside the 15-second window that markPending(D) opened
\* for a blocklisted domain D keeps D in the persisted blocklist and installs a
\* rule for D, although the oracle reports no access for D.
C7_Grace ==
    ev.passEnd =>
        \A d \in ev.h.graced : d \in SeqToSet(blockedDomains) /\ HasRule(d)

\* C8: once markGranted(D) has been answered for a domain D without host access,
\* a pass that runs afterwards leaves D neither in the persisted blocklist nor
\* in the installed rules.
C8_Ended ==
    ev.passEnd =>
        \A d \in ev.h.endedIn : d \notin SeqToSet(blockedDomains) /\ ~HasRule(d)

\* C3: every call of syncRules, also one that finds a pass in flight, is
\* eventually followed by the end of a pass that read the persisted state after
\* the call.
C3_Served == (hist.owed = "asked") ~> (hist.owed = "none")

\* a pass has ended that read the state after a request that had found the
\* previous pass in flight
C3_Witness == ev.passEnd /\ ev.h.owed = "reading" /\ ev.h.late /\ hist.owed = "none"

\* C11: once the per-domain timer of d has fired, its handler removes d's pause
\* entry, and from then on a rule for d is installed eventually unless d stops
\* being blocklisted and authorised or a pause (global, or a new one of d) is
\* running; also when a pass was in flight as the timer fired.  (The timer's
\* history leaves "fired" only when the entry is removed, and becomes "idle"
\* only after that, when the rule is installed or d is not enforceable.)
C11_Woken ==
    \A d \in Domains :
        (hist.wake[d] # "idle") ~> (hist.wake[d] = "idle")

\* the timer fired while a pass was in flight and the rule of the domain, absent
\* during the pause, is installed again
C11_Witness ==
    /\ hist.wakeBusy /\ ev.passEnd
    /\ hist.wake[DomainOrder[1]] = "idle"
    /\ HasRule(DomainOrder[1]) /\ Enforceable(DomainOrder[1])
    /\ DomainOrder[1] \notin DOMAIN pausedDomains
    /\ \A r \in ev.h.prev : r.domain # DomainOrder[1]

C13_InRange ==
    /\ \A t \in tasks : \A k \in 1..Len(t.desired) : InRange(t.desired[k].id)
    /\ \A r \in rules : InRange(r.id)

\* a pass over the largest blocklist has ended and installed a rule for every
\* domain of it
C13_Witness ==
    /\ ev.passEnd /\ ~ev.failed
    /\ Len(blockedDomains) = MaxEntries
    /\ {r.domain : r \in rules} = 1..MaxEntries

\* C14: the installed rules with identifiers outside the reserved range are
\* the same in every state: no pass removes, replaces or adds one.
C14_Frame == {r \in rules : ~InRange(r.id)} = Others

\* a pass has ended that replaced the rules of the reserved range, removing the
\* rule of a domain that another subsystem's rule matches too
C14_Witness ==
    /\ ev.passEnd /\ ~ev.failed
    /\ rules # ev.h.prev
    /\ \E r \in ev.h.prev \ rules : \E o \in Others : o.domain = r.domain
    /\ Others \subseteq rules

\* C15: a message that is unknown or lacks a required field of the required
\* type (a domain that is a string, minutes that are a positive number) is
\* answered {ok: false}, and its handler writes no persisted state, arms or
\* clears no alarm and asks for no pass.
C15_Rejected ==
    /\ ev.resp # "" /\ (ev.invalid \/ ~IsString(ev.d)) => ~ev.ok
    /\ ~hist.tainted

\* C16: a command (pauseForMinutes, resumeNow, pauseDomain, resumeDomain,
\* markGranted) that an idle worker took up and that is answered {ok: false},
\* because a storage write or the rule update of its handler was rejected,
\* leaves the persisted pauses and pending grants and the armed alarms as it
\* found them.
C16_AllOrNothing ==
    ev.resp # "" /\ ~ev.ok /\ ev.h.before.cmd = ev.resp /\ ev.h.before.d = ev.d =>
        Snooze = ev.h.before.state

\* C17 (as claimed): notifications that the listener took within one debounce
\* window cause exactly one debounced request, not earlier than one window
\* after the last of them.
C17_OnePerBurst ==
    LET g == hist.deb IN
    g.fires > 0 /\ g.last - g.first < DEBOUNCE_MS =>
        g.fires = 1 /\ g.at >= g.last + DEBOUNCE_MS

\* C17 (amended): the platform holds at most one debounce timeout, the one
\* _debounceTimer names; a debounced request follows at least one scheduleSync
\* call made since the previous request and comes no earlier than one window
\* after the last of them.
C17_OnePerCalls ==
    LET g == hist.deb IN
    /\ Cardinality(g.timers) <= 1
    /\ debounceTimer <=> g.timers # {}
    /\ g.since # -1 => g.since >= 1 /\ g.wait >= DEBOUNCE_MS

C17_Witness ==
    /\ hist.deb.since = MaxCoalesced
    /\ hist.deb.wait = DEBOUNCE_MS
    /\ hist.deb.last > hist.deb.first
    /\ hist.deb.fires = 1
    /\ ~debounceTimer

\* C18: once a resumeNow command has been answered {ok: true}, and until the
\* next pause command arrives, pausedUntilTs is 0, pausedDomains is empty and
\* neither the global alarm nor a per-domain resume alarm is armed.
C18_AllClear ==
    hist.resumed => pausedUntilTs = 0 /\ pausedDomains = EmptyMap /\ alarms = EmptyMap

\* C19: once the add-domain handler has finished after the user denied the
\* permission request, the domain is not in the persisted blocklist and no
\* rule for it is installed.
C19_Dropped ==
    hist.flow.pc = "done" =>
        NewDomain \notin SeqToSet(blockedDomains) /\ ~HasRule(NewDomain)

\* C20: whenever no handler and no pass is in flight, every persisted pause
\* that ends in the future, global or per-domain, has the alarm of its scope
\* armed for the persisted expiry.
C20_Covered ==
    tasks = {} /\ ~syncing =>
        /\ pausedUntilTs > now =>
              /\ GlobalAlarm \in DOMAIN alarms
              /\ alarms[GlobalAlarm] = pausedUntilTs
        /\ \A d \in DOMAIN pausedDomains :
              pausedDomains[d] > now =>
                  /\ DomainAlarm(d) \in DOMAIN alarms
                  /\ alarms[DomainAlarm(d)] = pausedDomains[d]

\* the installed rules of the reserved range
Ours == {r \in rules : InRange(r.id)}

\* C21: after every pass that completed, the installed rules of the reserved
\* range are exactly the rules that pass compiled, numbered RULE_BASE,
\* RULE_BASE+1, ... with one rule per domain and none left from an earlier
\* pass; and the installed rules change in no step but the one that completes
\* a pass, so no partly swapped set is ever installed.
C21_Swapped ==
    /\ hist.swapped =>
          /\ ev.passEnd
          /\ Ours = {ev.desired[k] : k \in 1..Len(ev.desired)}
          /\ Cardinality(Ours) = Len(ev.desired)
          /\ \A k \in 1..Len(ev.desired) : ev.desired[k].id = RULE_BASE + (k - 1)
          /\ \A j, k \in 1..Len(ev.desired) :
                j # k => ev.desired[j].domain # ev.desired[k].domain
    /\ rules # hist.was => hist.swapped

C21_Witness ==
    /\ hist.swapped
    /\ Len(ev.desired) = 1
    /\ Cardinality({r \in hist.was : InRange(r.id)}) = 2
    /\ Ours = {domainRule(RULE_BASE, DomainOrder[2])}

\* the locals of a reconcileDomains call that has left its loop
Reconciled == {t \in tasks : t.pc \in {"setPending", "setBlocked", "getRules", "updateRules"}}

\* C22: reconcileDomains returns, in the order of the declared list, exactly
\* the declared domains whose pending grant (as the pass read it) expires
\* after the time of the pass or for which the permission query of the pass
\* reported access.
C22_Allowed ==
    \A t \in Reconciled :
        t.allowed = SelectSeq(t.sBlocked,
            LAMBDA d : \/ d \in DOMAIN hist.pend /\ hist.pend[d] > t.rnow
                       \/ <<d, TRUE>> \in hist.asked)

\* one domain allowed by its live pending grant alone, the other by the
\* permission alone, its pending grant expired
C22_Witness ==
    \E t \in Reconciled :
        /\ t.allowed = DomainOrder
        /\ ~Holds(perms, DomainOrder[1])
        /\ hist.pend = (DomainOrder[1] :> 2 * PENDING_MS) @@ (DomainOrder[2] :> PENDING_MS)
        /\ <<DomainOrder[2], TRUE>> \in hist.asked
        /\ t.rnow = PENDING_MS


\* a reconcileDomains call that has returned to syncRules
Returned == {t \in tasks : t.pc \in {"getRules", "updateRules"}}

\* no declared domain was denied: each had a live pending grant or access
NoneDenied(t) ==
    \A k \in 1..Len(t.sBlocked) :
        \/ t.sBlocked[k] \in DOMAIN hist.pend /\ hist.pend[t.sBlocked[k]] > t.rnow
        \/ <<t.sBlocked[k], TRUE>> \in hist.asked

\* no declared domain had a pending grant that had expired
NoneExpired(t) ==
    \A k \in 1..Len(t.sBlocked) :
        ~(t.sBlocked[k] \in DOMAIN hist.pend /\ hist.pend[t.sBlocked[k]] <= t.rnow)

\* C23: a reconcileDomains call in which no declared domain was denied and no
\* declared domain had an expired pending grant has written neither
\* blockedDomains nor pendingGrants.
C23_NoWrite == \A t \in Returned : NoneDenied(t) /\ NoneExpired(t) => ~hist.wrote

\* such a call has returned, with a live pending grant read and both domains
\* declared
C23_Witness ==
    \E t \in Returned :
        /\ NoneDenied(t) /\ NoneExpired(t)
        /\ t.sBlocked = DomainOrder
        /\ hist.pend = (DomainOrder[1] :> 2 * PENDING_MS)
        /\ ~Holds(perms, DomainOrder[1])


\* the five patterns in the order all sites, https subdomains, http
\* subdomains, https exact, http exact
InOrder(d) == <<[scheme |-> "*", sub |-> FALSE, host |-> "*"],
                [scheme |-> "https", sub |-> TRUE, host |-> d],
                [scheme |-> "http", sub |-> TRUE, host |-> d],
                [scheme |-> "https", sub |-> FALSE, host |-> d],
                [scheme |-> "http", sub |-> FALSE, host |-> d]>>

\* C24: hasHostAccess queries the five patterns in that order; no query
\* follows one that found its pattern held, and the call then returns true;
\* it returns false only after all five were queried and none was found held,
\* a query that threw counting as not held; and no pass fails because a query
\* threw.
C24_Probed ==
    LET p == hist.probe
        n == Len(p.queried)
    IN /\ n <= 5
       /\ \A k \in 1..n : p.queried[k].q = InOrder(p.d)[k]
       /\ \A k \in 1..n : p.queried[k].out = "held" => k = n /\ p.answer = "true"
       /\ p.answer = "true" => n > 0 /\ p.queried[n].out = "held"
       /\ p.answer = "false" => n = 5
       /\ ev.passEnd => ~ev.failed

\* a call whose first query threw has returned true at the fourth pattern, and
\* the pass goes on with the domain allowed
C24_Witness ==
    /\ hist.probe.answer = "true"
    /\ Len(hist.probe.queried) = 4
    /\ hist.probe.queried[1].out = "threw"
    /\ hist.probe.queried[2].out = "absent"
    /\ \E t \in InFlight : hist.probe.d \in SeqToSet(t.allowed)


\* C25: once the worker is at rest and no timer is due, the persisted
\* pausedDomains holds no entry whose expiry has passed: a pause that expired
\* or was resumed has had its key removed, also when the expiry passed while
\* the worker was stopped.
C25_NoStale ==
    /\ tasks = {} /\ changes = {} /\ ~debounceTimer /\ ~syncing
    /\ \A a \in DOMAIN alarms : alarms[a] > now
    => \A d \in DOMAIN pausedDomains : pausedDomains[d] > now


\* C26: when a pass has completed, the persisted pendingGrants holds no entry
\* whose expiry is at or before the time of that pass, whether or not its
\* domain is in the blocklist.
C26_Swept ==
    ev.passEnd /\ ~ev.failed =>
        \A d \in DOMAIN pendingGrants : pendingGrants[d] > ev.at


\* C27: once the pending grant of a blocklisted domain without host access
\* has expired, the domain is eventually gone from the installed rules and
\* from the persisted blocklist, with no further event from outside needed.
C27_Reverts ==
    (/\ DomainOrder[1] \in SeqToSet(blockedDomains)
     /\ DomainOrder[1] \in DOMAIN pendingGrants
     /\ pendingGrants[DomainOrder[1]] <= now
     /\ perms \cap ({AllSites} \cup OriginsOf(DomainOrder[1])) = {})
    ~> (/\ DomainOrder[1] \notin SeqToSet(blockedDomains)
        /\ \A r \in rules : r.domain # DomainOrder[1])


\* C28: a pass that ends with a call rejected clears the in-progress flag, and
\* runs the trailing pass when a resync had been requested; the flag is never
\* set without a pass in flight; and a reconcile request that arrives after a
\* failure and finds no pass in flight starts a new pass.
C28_Recovers ==
    /\ ev.passEnd /\ ev.failed =>
          IF hist.need
          THEN ev.passStart /\ syncing /\ ~needsResync
               /\ \E t \in tasks : t.pc = "getState"
          ELSE ~syncing
    /\ syncing => \E t \in tasks : t.pc \in PassPcs
    /\ hist.failedOnce /\ hist.req /\ ~hist.busy => ev.passStart /\ syncing

\* after a failed pass that was followed by its trailing pass, a reconcile
\* request has started a new pass
C28_Witness ==
    /\ hist.trailed /\ hist.req /\ ~hist.busy
    /\ ev.passStart /\ syncing


\* C29: a domain that the reconciler's rewrite of blockedDomains takes out of
\* the persisted blocklist has neither host access nor a live pending grant,
\* also when the popup added it while the pass was in flight.
C29_OnlyDenied ==
    \A d \in hist.dropped :
        /\ perms \cap ({AllSites} \cup OriginsOf(d)) = {}
        /\ ~(d \in DOMAIN pendingGrants /\ pendingGrants[d] > now)


\* C30: when the handlers of pauseDomain and resumeDomain commands on
\* different domains have finished, the persisted pausedDomains is the initial
\* map with each command's change made to the entry of its own domain: no
\* command's update is lost, whatever the interleaving.
C30_BothKept ==
    (\A t \in tasks : t.kind \notin {"pauseDomain", "resumeDomain"})
        => pausedDomains = hist.expect


\* C31: a pending grant that markPending(D) has recorded stays in the
\* persisted pendingGrants until it expires or a markGranted(D) is handled:
\* no handler for another domain and no sweep of the reconciler removes it.
C31_Kept == \A d \in DOMAIN hist.graceUntil : d \in DOMAIN pendingGrants


\* C32: a domain that a write of blockedDomains has added is still in the
\* persisted blocklist during the 15 seconds after the addition (no
\* markGranted is sent), whether or not host access is held for it and
\* however the change notification interleaves with reconcile requests.
C32_NoFlicker == \A d \in hist.newly : d \in SeqToSet(blockedDomains)


\* C33: every per-domain pause that was persisted with an expiry in the future
\* when the global pause alarm fired is, until that expiry, still persisted
\* with its own alarm armed, and its domain has no rule installed.
C33_Independent ==
    \A d \in DOMAIN hist.outlive :
        hist.outlive[d] > now =>
            /\ d \in DOMAIN pausedDomains
            /\ pausedDomains[d] = hist.outlive[d]
            /\ DomainAlarm(d) \in DOMAIN alarms
            /\ ~HasRule(d)


\* C34: once the external events have stopped, the chain pass -> storage
\* write -> change notification -> debounced pass comes to an end: from some
\* point on no pass is in flight, no resync is pending, no change notification
\* is undelivered and the debounce timer is not armed.
C34_Terminates == <>[](Quiet /\ ~needsResync)

\* a pass wrote storage, the debounce timer it armed has fired, the pass the
\* timer started has finished and the worker is idle
C34_Witness ==
    /\ hist.chain = 2
    /\ ev.passEnd /\ ev.done = "debounce"
    /\ Quiet /\ ~needsResync


\* the commands that call syncRules last, so that the step in which syncRules
\* returns is the step that answers them
Reconciling == {"syncRules", "pauseForMinutes", "pauseDomain", "resumeDomain",
                "markGranted"}

\* C35 as stated: a reconciling command is answered {ok: true} only in the
\* step that ends a pass started after the command's writes, also when the
\* command arrived while another pass was in flight.
C35_AfterOwnPass == ev.resp \in Reconciling /\ ev.ok => ev.passEnd

\* C35, amended: a reconciling command whose syncRules call finds no pass in
\* flight is answered {ok: true} only when the pass that call started after
\* the command's writes (and any trailing pass) has ended, with the rules that
\* pass compiled installed; a syncRules call that finds a pass in flight
\* returns at once with the pass still in flight and a resync recorded.
C35_OwnPassOrRecorded ==
    /\ ev.resp \in Reconciling /\ ev.ok /\ ~ev.early =>
          /\ ev.passEnd /\ ~ev.failed
          /\ Ours = {ev.desired[k] : k \in 1..Len(ev.desired)}
    /\ ev.early => syncing /\ needsResync /\ ~ev.passEnd

\* pauseDomain is answered when its own pass has ended: the pause it wrote is
\* persisted and the domain's rule, installed before, is gone
C35_Witness ==
    /\ ev.resp = "pauseDomain" /\ ev.ok /\ ev.passEnd
    /\ ev.d \in DOMAIN pausedDomains
    /\ ~HasRule(ev.d)


====
